---- MODULE Spec2Model ----
(***************************************************************************)
(* A model of the financial calculation engine of re-financial-model:      *)
(* the LP/GP waterfall (app/calculations/waterfall.py), the Newton-Raphson *)
(* IRR/XIRR solver (app/calculations/irr.py) and the monthly cash-flow     *)
(* generator (app/calculations/cashflow.py).                               *)
(*                                                                         *)
(* Numbers.  The code computes in IEEE doubles.  The model computes in     *)
(* exact rationals <<numerator, denominator>> (denominator > 0, lowest     *)
(* terms), so every sum, product, quotient and comparison below is the     *)
(* real-number value of the expression the code evaluates; the ulp-level   *)
(* error of double arithmetic is not modelled.  round(x, 2) is modelled as *)
(* rounding of the exact value to cents, ties to even.  Inputs are drawn   *)
(* from sets on which the exact values stay inside TLC's 32-bit integers.  *)
(***************************************************************************)
EXTENDS Integers, Sequences, FiniteSets, TLC

(***************************************************************************)
(* Exact rational arithmetic.                                              *)
(***************************************************************************)
\* Operators below evaluate each argument once and then compute on the
\* values: Strict1 and Strict2 apply an operator to evaluated arguments.
Strict1(Op(_), x) == CHOOSE r \in {Op(a) : a \in {x}} : TRUE
Strict2(Op(_, _), x, y) == CHOOSE r \in {Op(a, b) : a \in {x}, b \in {y}} : TRUE

Abs(n) == IF n < 0 THEN -n ELSE n

RECURSIVE GCD(_, _)
GCD(a, b) == IF b = 0 THEN a ELSE CHOOSE g \in {GCD(b, r) : r \in {a % b}} : TRUE

Normalised(n, d) ==
    LET g == GCD(Abs(n), Abs(d))
        s == IF d < 0 THEN -1 ELSE 1
    IN  <<(s * n) \div g, (s * d) \div g>>

\* The rational n / d in lowest terms.
Rat(n, d) == Strict2(Normalised, n, d)

Num(x) == x[1]
Den(x) == x[2]
Whole(n) == <<n, 1>>
Zero == <<0, 1>>
One == <<1, 1>>

RNeg(x) == Strict1(LAMBDA a : <<-Num(a), Den(a)>>, x)

Sum(x, y) ==
    LET g == GCD(Den(x), Den(y))
    IN  Rat(Num(x) * (Den(y) \div g) + Num(y) * (Den(x) \div g),
            (Den(x) \div g) * Den(y))

RAdd(x, y) == Strict2(Sum, x, y)

RSub(x, y) == RAdd(x, RNeg(y))

Product(x, y) ==
    LET g1 == GCD(Abs(Num(x)), Den(y))
        g2 == GCD(Abs(Num(y)), Den(x))
    IN  <<(Num(x) \div g1) * (Num(y) \div g2),
          (Den(x) \div g2) * (Den(y) \div g1)>>

RMul(x, y) == Strict2(Product, x, y)

RInv(x) ==
    Strict1(LAMBDA a : IF Num(a) > 0 THEN <<Den(a), Num(a)>>
                       ELSE <<-Den(a), -Num(a)>>, x)

RDiv(x, y) == RMul(x, RInv(y))

RLt(x, y) == Num(RSub(x, y)) < 0
RLe(x, y) == Num(RSub(x, y)) <= 0
RGt(x, y) == RLt(y, x)
RGe(x, y) == RLe(y, x)
RMin(x, y) == Strict2(LAMBDA a, b : IF RLe(a, b) THEN a ELSE b, x, y)
RMax(x, y) == Strict2(LAMBDA a, b : IF RGe(a, b) THEN a ELSE b, x, y)
RAbs(x) == Strict1(LAMBDA a : <<Abs(Num(a)), Den(a)>>, x)

RECURSIVE RPow(_, _)
RPow(x, k) == IF k = 0 THEN One ELSE RMul(x, RPow(x, k - 1))

\* Python's round(x, 2): the nearest multiple of 1/100, ties to even.
NearestCent(x) ==
    LET q == Num(x) \div Den(x)
        r == Num(x) % Den(x)
        c == (r * 100) \div Den(x)
        rem == (r * 100) % Den(x)
        base == q * 100 + c
    IN  IF 2 * rem > Den(x) THEN base + 1
        ELSE IF 2 * rem < Den(x) THEN base
        ELSE IF base % 2 = 0 THEN base ELSE base + 1

RoundCents(x) == Strict1(NearestCent, x)

Round2(x) == Rat(RoundCents(x), 100)

RECURSIVE RSum(_)
RSum(xs) == IF xs = <<>> THEN Zero ELSE RAdd(Head(xs), RSum(Tail(xs)))


(***************************************************************************)
(* State.                                                                  *)
(***************************************************************************)
VARIABLES
    \* calculate_waterfall_distributions: arguments
    leveraged_cash_flows, dates, total_equity, lp_share, gp_share,
    pref_return, compound_monthly, final_split,
    \* calculate_waterfall_distributions: running state of the loop
    wf_i,                    \* number of periods processed (the next index i)
    lp_equity_unreturned, gp_equity_unreturned,
    lp_pref_accrued, gp_pref_accrued,
    wf_period,               \* the locals of the period processed last
    distributions,           \* the records appended so far
    \* calculate_irr / calculate_xirr / calculate_xnpv
    irr_fn,                  \* which function was called
    irr_cash_flows, irr_dates,
    guess,                   \* guess (discount_rate for calculate_xnpv)
    rate,                    \* the Newton iterate
    iterations,              \* loop bodies entered so far
    irr_pc,                  \* "call", "loop", "returned" or "raised"
    irr_result,              \* the value returned
    irr_error,               \* the exception raised
    \* generate_cash_flows
    cf_args,                 \* the arguments of the call
    cf_pc,                   \* "pass1", "pass2" or "returned"
    period,                  \* the loop variable of the pass in progress
    period_data,             \* the first pass's list
    cash_flows,              \* the records appended so far
    cf_locals,               \* the second pass's locals of the period
                             \* processed last, before rounding
    \* generate_amortization_schedule
    am_args,                 \* the arguments of the call
    today,                   \* the day date.today() returns
    am_pc,                   \* "loop" or "returned"
    start_date,              \* the local start_date after defaulting
    am_period,               \* the loop variable
    balance,
    schedule,                \* the rows appended so far
    am_row,                  \* the locals of the row appended last, before
                             \* rounding
    am_returned,             \* what earlier calls with am_args returned
    \* a call of one of the engine's pure functions
    fn_call,                 \* the function called and its arguments
    fn_pc,                   \* "called" or "returned"
    fn_result,               \* the value returned
    \* POST /calculate/irr
    api_pc,                  \* "solving" or "responded"
    api_response,            \* the response: status and body
    \* the authentication endpoints and their tables
    auth_pc,                 \* "serving" while the endpoints are up
    utcnow,                  \* datetime.utcnow(), in whole seconds
    hashed_password,         \* users.hashed_password, by user id
    is_active,               \* users.is_active, by user id
    refresh_tokens,          \* the rows of the refresh_tokens table
    password_reset_tokens,   \* the rows of the password_reset_tokens table
    reset_before,            \* by user id, the refresh tokens issued to the
                             \* user before a successful password reset
    used_resets,             \* the reset tokens of the successful resets
    auth_response,           \* the response to the request served last
    \* the admin user-management endpoints
    users,                   \* the users table by id: role, is_active and
                             \* is_deleted
    admin_pc,                \* by caller, "authorized" once require_admin
                             \* has passed the caller's request on
    admin_response           \* the request handled last and its status

wfVars == <<leveraged_cash_flows, dates, total_equity, lp_share, gp_share,
            pref_return, compound_monthly, final_split, wf_i,
            lp_equity_unreturned, gp_equity_unreturned,
            lp_pref_accrued, gp_pref_accrued, wf_period, distributions>>

irrVars == <<irr_fn, irr_cash_flows, irr_dates, guess, rate, iterations,
             irr_pc, irr_result, irr_error>>

cfVars == <<cf_args, cf_pc, period, period_data, cash_flows, cf_locals>>

amVars == <<am_args, today, am_pc, start_date, am_period, balance, schedule,
            am_row, am_returned>>

fnVars == <<fn_call, fn_pc, fn_result>>

apiVars == <<api_pc, api_response>>

authVars ==
    <<auth_pc, utcnow, hashed_password, is_active, refresh_tokens,
      password_reset_tokens, reset_before, used_resets, auth_response>>

adminVars == <<users, admin_pc, admin_response>>

vars ==
    <<wfVars, irrVars, cfVars, amVars, fnVars, apiVars, authVars, adminVars>>

\* What a step of one component leaves alone: the other components.
wfFrame ==
    <<irrVars, cfVars, amVars, fnVars, apiVars, authVars, adminVars>>
irrFrame ==
    <<wfVars, cfVars, amVars, fnVars, apiVars, authVars, adminVars>>
cfFrame ==
    <<wfVars, irrVars, amVars, fnVars, apiVars, authVars, adminVars>>
amFrame ==
    <<wfVars, irrVars, cfVars, fnVars, apiVars, authVars, adminVars>>
fnFrame ==
    <<wfVars, irrVars, cfVars, amVars, apiVars, authVars, adminVars>>
apiFrame == <<wfVars, cfVars, amVars, fnVars, authVars, adminVars>>
authFrame ==
    <<wfVars, irrVars, cfVars, amVars, fnVars, apiVars, adminVars>>
adminFrame ==
    <<wfVars, irrVars, cfVars, amVars, fnVars, apiVars, authVars>>

\* The result slot before a value is returned.
NoResult == <<>>
NoError == [kind |-> "None", message |-> "None"]

\* The second pass's locals before any period is processed.
NoLocals ==
    [ period |-> -1, noi |-> <<0, 1>>, acquisition_costs |-> <<0, 1>>,
      forward_noi |-> <<0, 1>>, exit_proceeds |-> <<0, 1>>,
      interest_expense |-> <<0, 1>>, principal_payment |-> <<0, 1>>,
      debt_service |-> <<0, 1>>, unleveraged_cf |-> <<0, 1>>,
      leveraged_cf |-> <<0, 1>> ]

\* No call of generate_cash_flows is in progress.
CashFlowIdle ==
    /\ cf_args = [hold_period_months |-> 0] /\ cf_pc = "idle" /\ period = 0
    /\ period_data = <<>> /\ cash_flows = <<>> /\ cf_locals = NoLocals

\* No call of the solver is in progress.
IrrIdle ==
    /\ irr_fn = "none" /\ irr_cash_flows = <<>> /\ irr_dates = <<>>
    /\ guess = Zero /\ rate = Zero /\ iterations = 0
    /\ irr_pc = "idle" /\ irr_result = NoResult /\ irr_error = NoError

\* date.today() before any call reads it, and start_date = None.
NoDate == <<>>

\* The locals of a schedule row before any row is computed.
NoRow ==
    [ period |-> 0, balance |-> <<0, 1>>, interest |-> <<0, 1>>,
      principal_pmt |-> <<0, 1>>, payment |-> <<0, 1>>,
      ending_balance |-> <<0, 1>>, remaining_amort_periods |-> 0 ]

\* No call of generate_amortization_schedule is in progress.
AmortizationIdle ==
    /\ am_args = [total_months |-> 0] /\ today = NoDate /\ am_pc = "idle"
    /\ start_date = NoDate /\ am_period = 0 /\ balance = <<0, 1>>
    /\ schedule = <<>> /\ am_row = NoRow /\ am_returned = <<>>

\* The solver has returned or raised.
IrrTerminated == irr_pc \in {"returned", "raised"}

\* No pure function is being called.
NoCall == [fn |-> "none"]
FunctionIdle == fn_call = NoCall /\ fn_pc = "idle" /\ fn_result = NoResult

\* No request is being handled.
NoResponse == [status |-> 0]
ApiIdle == api_pc = "idle" /\ api_response = NoResponse

\* The users of the model, by id.
Users == {"u1", "u2"}
\* A refresh-token argument that is absent, and a response before any request.
NoToken == [sub |-> "", exp |-> 0, type |-> ""]
NoAuthResponse ==
    [endpoint |-> "", status |-> 0, refresh_token |-> NoToken,
     reset_token |-> 0, reset_before |-> FALSE, used_before |-> FALSE,
     issued |-> NoToken]
\* The authentication endpoints are not serving.
AuthIdle ==
    /\ auth_pc = "idle"
    /\ utcnow = 0
    /\ hashed_password = [u \in Users |-> ""]
    /\ is_active = [u \in Users |-> FALSE]
    /\ refresh_tokens = <<>>
    /\ password_reset_tokens = <<>>
    /\ reset_before = [u \in Users |-> {}]
    /\ used_resets = {}
    /\ auth_response = NoAuthResponse

\* No row, no request in flight and no response: the admin endpoints are
\* not serving.
NoUser == [role |-> "", is_active |-> FALSE, is_deleted |-> FALSE]
NoAdminResponse ==
    [endpoint |-> "", admin |-> "", user_id |-> "", role |-> <<>>,
     is_active |-> <<>>, status |-> 0]
AdminIdle ==
    /\ users = [u \in Users |-> NoUser]
    /\ admin_pc = [u \in Users |-> "idle"]
    /\ admin_response = NoAdminResponse

\* All sequences of length 0..n over S.
SeqsUpTo(S, n) == UNION {[1..k -> S] : k \in 0..n}

(***************************************************************************)
(* Waterfall engine: app/calculations/waterfall.py                         *)
(***************************************************************************)
DEFAULT_FINAL_SPLIT ==
    [lp_split |-> Rat(75, 100), gp_split |-> Rat(833, 10000),
     gp_promote |-> Rat(1667, 10000)]

\* calculate_simple_waterfall builds its final split from the equity shares.
SimpleFinalSplit(lp, gp) ==
    [lp_split |-> lp, gp_split |-> gp, gp_promote |-> Zero]

\* initial equity balances
lp_equity == RMul(total_equity, lp_share)
gp_equity == RMul(total_equity, gp_share)

monthly_pref_rate == RDiv(pref_return, Whole(12))

\* A faulty variant of Accrued: period 0 accrues as well.
AccruedEveryPeriod(i, equity, accrued) ==
    IF compound_monthly
    THEN RAdd(accrued, RMul(RAdd(equity, accrued), monthly_pref_rate))
    ELSE RAdd(accrued, RMul(equity, monthly_pref_rate))

\* The accrual of period i on a party's balance: none in period 0, then on
\* original equity (simple) or on equity plus unpaid pref (compound_monthly).
Accrued(i, equity, accrued) ==
    IF i > 0
    THEN IF compound_monthly
         THEN RAdd(accrued, RMul(RAdd(equity, accrued), monthly_pref_rate))
         ELSE RAdd(accrued, RMul(equity, monthly_pref_rate))
    ELSE accrued

\* The locals of one period before any cash is applied.
PeriodStart(cash_flow, lpU, gpU, lpA, gpA) ==
    [cash_flow |-> cash_flow,
     remaining |-> cash_flow,
     lp_equity_unreturned |-> lpU, gp_equity_unreturned |-> gpU,
     lp_pref_accrued |-> lpA, gp_pref_accrued |-> gpA,
     lp_equity_return |-> Zero, gp_equity_return |-> Zero,
     lp_pref_paid |-> Zero, gp_pref_paid |-> Zero,
     lp_profit_share |-> Zero, gp_profit_share |-> Zero,
     gp_promote_paid |-> Zero]

\* A faulty variant of ComplementShare: the other party is paid its static share.
ComplementShareStatic(payment, pct) == RMul(payment, gp_share)

\* GP's part of a pro-rata payment: payment * (1 - lp_pct).
ComplementShare(payment, pct) == RMul(payment, RSub(One, pct))

\* A faulty variant of EquityPayment: all the cash is paid as capital.
EquityPaymentUncapped(remaining, lpU, gpU) == remaining

\* A faulty variant of EquityPayment: capped by LP's unreturned balance alone.
EquityPaymentLpOnly(remaining, lpU, gpU) == RMin(remaining, lpU)

\* equity_payment = min(remaining, total_equity_unreturned)
EquityPayment(remaining, lpU, gpU) == RMin(remaining, RAdd(lpU, gpU))

\* STEP 1: return of capital, pro-rata on the unreturned balances.
ReturnOfCapital(s) ==
    LET total_equity_unreturned ==
            RAdd(s.lp_equity_unreturned, s.gp_equity_unreturned)
    IN  IF RGt(total_equity_unreturned, Zero)
        THEN LET equity_payment ==
                     EquityPayment(s.remaining, s.lp_equity_unreturned,
                                   s.gp_equity_unreturned)
                 lp_equity_pct ==
                     RDiv(s.lp_equity_unreturned, total_equity_unreturned)
                 lp_ret == RMul(equity_payment, lp_equity_pct)
                 gp_ret == ComplementShare(equity_payment, lp_equity_pct)
             IN  [s EXCEPT
                    !.lp_equity_return = lp_ret,
                    !.gp_equity_return = gp_ret,
                    !.lp_equity_unreturned = RSub(@, lp_ret),
                    !.gp_equity_unreturned = RSub(@, gp_ret),
                    !.remaining = RSub(@, equity_payment)]
        ELSE s

\* STEP 2: accrued preferred return, pro-rata on the accrued balances.
PreferredReturn(s) ==
    LET total_pref_owed == RAdd(s.lp_pref_accrued, s.gp_pref_accrued)
    IN  IF RGt(s.remaining, Zero) /\ RGt(total_pref_owed, Zero)
        THEN LET pref_payment == RMin(s.remaining, total_pref_owed)
                 lp_pref_pct == RDiv(s.lp_pref_accrued, total_pref_owed)
                 lp_paid == RMul(pref_payment, lp_pref_pct)
                 gp_paid == ComplementShare(pref_payment, lp_pref_pct)
             IN  [s EXCEPT
                    !.lp_pref_paid = lp_paid,
                    !.gp_pref_paid = gp_paid,
                    !.lp_pref_accrued = RSub(@, lp_paid),
                    !.gp_pref_accrued = RSub(@, gp_paid),
                    !.remaining = RSub(@, pref_payment)]
        ELSE s

\* STEP 3: what is left is split by final_split.  The code leaves
\* `remaining` as it is after this step.
ProfitSplit(s) ==
    IF RGt(s.remaining, Zero)
    THEN [s EXCEPT
            !.lp_profit_share = RMul(s.remaining, final_split.lp_split),
            !.gp_profit_share = RMul(s.remaining, final_split.gp_split),
            !.gp_promote_paid = RMul(s.remaining, final_split.gp_promote)]
    ELSE s

\* A faulty variant of PayTiers: preferred return is paid before capital is returned.
PayTiersPrefFirst(s) == ProfitSplit(ReturnOfCapital(PreferredReturn(s)))

\* The body of `if remaining > 0`: the three steps in the code's order.
PayTiers(s) == ProfitSplit(PreferredReturn(ReturnOfCapital(s)))

total_to_lp(s) ==
    RAdd(RAdd(s.lp_equity_return, s.lp_pref_paid), s.lp_profit_share)
total_to_gp(s) ==
    RAdd(RAdd(RAdd(s.gp_equity_return, s.gp_pref_paid), s.gp_profit_share),
         s.gp_promote_paid)

\* The record appended for period i (0-based) with locals s.
DistributionRecord(i, s) ==
    [period |-> i,
     date |-> IF i < Len(dates) THEN dates[i + 1] ELSE "None",
     cash_flow |-> Round2(s.cash_flow),
     lp_equity_return |-> Round2(s.lp_equity_return),
     gp_equity_return |-> Round2(s.gp_equity_return),
     lp_preferred_return |-> Round2(s.lp_pref_paid),
     gp_preferred_return |-> Round2(s.gp_pref_paid),
     lp_profit_share |-> Round2(s.lp_profit_share),
     gp_profit_share |-> Round2(s.gp_profit_share),
     gp_promote |-> Round2(s.gp_promote_paid),
     total_to_lp |-> Round2(total_to_lp(s)),
     total_to_gp |-> Round2(total_to_gp(s)),
     lp_equity_unreturned |-> Round2(RMax(Zero, s.lp_equity_unreturned)),
     gp_equity_unreturned |-> Round2(RMax(Zero, s.gp_equity_unreturned)),
     lp_pref_accrued |-> Round2(RMax(Zero, s.lp_pref_accrued)),
     gp_pref_accrued |-> Round2(RMax(Zero, s.gp_pref_accrued))]

\* Bounds and input sets of the waterfall specification.
MaxPeriods == 3
CashFlowValues == {Whole(-100), Zero, Whole(40), Whole(150)}
EquityValues == {Zero, Whole(100)}
\* <<lp_share, gp_share>>: the default 90/10 and a pair that does not sum to 1
ShareValues == {<<Rat(9, 10), Rat(1, 10)>>, <<Rat(1, 2), Rat(1, 4)>>}
\* annual preferred returns; 6/5 makes the monthly rate 1/10, which keeps
\* compounded balances short
PrefValues == {Zero, Rat(6, 5)}
CustomFinalSplit ==
    [lp_split |-> Rat(7, 10), gp_split |-> Rat(1, 10), gp_promote |-> Rat(1, 5)]
FinalSplitValues(lp, gp) ==
    {DEFAULT_FINAL_SPLIT, SimpleFinalSplit(lp, gp), CustomFinalSplit}

WaterfallIdle ==
    /\ leveraged_cash_flows = <<>> /\ dates = <<>>
    /\ total_equity = Zero /\ lp_share = Zero /\ gp_share = Zero
    /\ pref_return = Zero /\ compound_monthly = FALSE
    /\ final_split = DEFAULT_FINAL_SPLIT
    /\ wf_i = 0
    /\ lp_equity_unreturned = Zero /\ gp_equity_unreturned = Zero
    /\ lp_pref_accrued = Zero /\ gp_pref_accrued = Zero
    /\ wf_period = PeriodStart(Zero, Zero, Zero, Zero, Zero)
    /\ distributions = <<>>

\* One component runs at a time: the others are idle.
WaterfallAlone ==
    IrrIdle /\ CashFlowIdle /\ AmortizationIdle /\ FunctionIdle /\ ApiIdle
        /\ AuthIdle /\ AdminIdle
IrrAlone ==
    WaterfallIdle /\ CashFlowIdle /\ AmortizationIdle /\ FunctionIdle
        /\ ApiIdle /\ AuthIdle /\ AdminIdle
CashFlowAlone ==
    WaterfallIdle /\ IrrIdle /\ AmortizationIdle /\ FunctionIdle /\ ApiIdle
        /\ AuthIdle /\ AdminIdle
AmortizationAlone ==
    WaterfallIdle /\ IrrIdle /\ CashFlowIdle /\ FunctionIdle /\ ApiIdle
        /\ AuthIdle /\ AdminIdle
FunctionAlone ==
    WaterfallIdle /\ IrrIdle /\ CashFlowIdle /\ AmortizationIdle /\ ApiIdle
        /\ AuthIdle /\ AdminIdle
\* The endpoint runs the solver: the other engines are idle.
ApiAlone ==
    WaterfallIdle /\ CashFlowIdle /\ AmortizationIdle /\ FunctionIdle
        /\ AuthIdle /\ AdminIdle
AuthAlone ==
    WaterfallIdle /\ IrrIdle /\ CashFlowIdle /\ AmortizationIdle
        /\ FunctionIdle /\ ApiIdle /\ AdminIdle
AdminAlone ==
    WaterfallIdle /\ IrrIdle /\ CashFlowIdle /\ AmortizationIdle
        /\ FunctionIdle /\ ApiIdle /\ AuthIdle

\* The state on entry to the loop (lines 81-99).
WaterfallInit ==
    /\ leveraged_cash_flows \in SeqsUpTo(CashFlowValues, MaxPeriods)
    /\ dates = [k \in 1..Len(leveraged_cash_flows) |-> k]
    /\ total_equity \in EquityValues
    /\ \E sh \in ShareValues :
          /\ lp_share = sh[1] /\ gp_share = sh[2]
          /\ final_split \in FinalSplitValues(sh[1], sh[2])
    /\ pref_return \in PrefValues
    /\ compound_monthly \in BOOLEAN
    /\ wf_i = 0
    /\ lp_equity_unreturned = lp_equity
    /\ gp_equity_unreturned = gp_equity
    /\ lp_pref_accrued = Zero /\ gp_pref_accrued = Zero
    /\ wf_period = PeriodStart(Zero, Zero, Zero, Zero, Zero)
    /\ distributions = <<>>
    /\ WaterfallAlone

\* A faulty variant of Distributes: every non-zero cash flow is distributed.
DistributesNonZero(cash_flow) == cash_flow /= Zero

\* `if remaining > 0`: only a positive cash flow is distributed.
Distributes(cash_flow) == RGt(cash_flow, Zero)

\* One iteration of `for i, cash_flow in enumerate(leveraged_cash_flows)`.
WaterfallPeriod ==
    /\ wf_i < Len(leveraged_cash_flows)
    /\ LET cash_flow == leveraged_cash_flows[wf_i + 1]
           s0 == PeriodStart(cash_flow,
                             lp_equity_unreturned, gp_equity_unreturned,
                             Accrued(wf_i, lp_equity, lp_pref_accrued),
                             Accrued(wf_i, gp_equity, gp_pref_accrued))
           s == IF Distributes(cash_flow) THEN PayTiers(s0) ELSE s0
       IN  /\ wf_period' = s
           /\ lp_equity_unreturned' = s.lp_equity_unreturned
           /\ gp_equity_unreturned' = s.gp_equity_unreturned
           /\ lp_pref_accrued' = s.lp_pref_accrued
           /\ gp_pref_accrued' = s.gp_pref_accrued
           /\ distributions' = Append(distributions, DistributionRecord(wf_i, s))
    /\ wf_i' = wf_i + 1
    /\ UNCHANGED <<leveraged_cash_flows, dates, total_equity, lp_share,
                   gp_share, pref_return, compound_monthly, final_split>>
    /\ UNCHANGED wfFrame

WaterfallNext == WaterfallPeriod

SpecWaterfall == WaterfallInit /\ [][WaterfallNext]_vars

(***************************************************************************)
(* IRR / NPV solver: app/calculations/irr.py                               *)
(***************************************************************************)
MAX_ITERATIONS == 100
TOLERANCE == <<1, 10000000>>
DEFAULT_GUESS == Rat(1, 10)

ValueError(msg) == [kind |-> "ValueError", message |-> msg]
ZeroDivisionError == [kind |-> "ZeroDivisionError", message |-> "division by zero"]
IndexError == [kind |-> "IndexError", message |-> "list index out of range"]

\* abs(x) < TOLERANCE, computed without multiplying by 10^7
BelowTolerance(x) ==
    Strict1(LAMBDA a : Abs(Num(a)) <= (Den(a) - 1) \div Den(TOLERANCE), x)

\* A faulty variant of MixedSigns: one sign is enough.
MixedSignsEither(cfs) ==
    \/ \E k \in 1..Len(cfs) : RGt(cfs[k], Zero)
    \/ \E k \in 1..Len(cfs) : RLt(cfs[k], Zero)

\* has_positive and has_negative
MixedSigns(cfs) ==
    /\ \E k \in 1..Len(cfs) : RGt(cfs[k], Zero)
    /\ \E k \in 1..Len(cfs) : RLt(cfs[k], Zero)

\* The time of cash flow k (1-based) as the exponent of (1 + rate): the
\* period index for calculate_irr, days / 365 for calculate_xirr and
\* calculate_xnpv.  The model draws dates a whole number of 365-day years
\* apart, so that every power is rational.
Years(k) ==
    IF irr_fn = "irr" THEN k - 1
    ELSE (irr_dates[k] - irr_dates[1]) \div 365

\* (1 + r) ** t raises ZeroDivisionError, or the division by it does, when
\* 1 + r = 0 and t # 0.
DivisionByZero(r) ==
    /\ RAdd(One, r) = Zero
    /\ \E k \in 1..Len(irr_cash_flows) : Years(k) # 0

RECURSIVE NpvFrom(_, _)
NpvFrom(k, r) ==
    IF k > Len(irr_cash_flows) THEN Zero
    ELSE RAdd(RDiv(irr_cash_flows[k], RPow(RAdd(One, r), Years(k))),
              NpvFrom(k + 1, r))

\* calculate_npv / calculate_xnpv
Npv(r) == NpvFrom(1, r)

RECURSIVE NpvDerivativeFrom(_, _)
NpvDerivativeFrom(k, r) ==
    IF k > Len(irr_cash_flows) THEN Zero
    ELSE RSub(NpvDerivativeFrom(k + 1, r),
              RDiv(RMul(Whole(Years(k)), irr_cash_flows[k]),
                   RPow(RAdd(One, r), Years(k) + 1)))

\* _npv_derivative / _xnpv_derivative
NpvDerivative(r) == NpvDerivativeFrom(1, r)

\* A faulty variant of CapReached: the loop runs once more.
CapReachedLate(n) == n >= MAX_ITERATIONS + 1

\* `for _ in range(MAX_ITERATIONS)` is exhausted after n iterations.
CapReached(n) == n >= MAX_ITERATIONS

\* The error raised by the checks that precede the loop, or NoError.
ValidationError(fn, cfs, ds) ==
    IF fn # "irr" /\ Len(cfs) # Len(ds)
    THEN ValueError("Cash flows and dates arrays must have same length")
    ELSE IF fn = "xnpv" THEN NoError
    ELSE IF Len(cfs) < 2 THEN ValueError("At least 2 cash flows required")
    ELSE IF ~MixedSigns(cfs)
    THEN ValueError("Cash flows must contain both positive and negative values")
    ELSE NoError

DerivativeTooSmall(fn) ==
    ValueError(IF fn = "irr" THEN "IRR calculation failed: derivative too small"
               ELSE "XIRR calculation failed: derivative too small")
DidNotConverge(fn) ==
    ValueError(IF fn = "irr" THEN "IRR calculation did not converge"
               ELSE "XIRR calculation did not converge")

\* Input sets.  The cash-flow lists and guesses are those on which every
\* Newton iterate is an exact rational inside the integer range: lists that
\* fail validation, <<-1, 2, -1>> (a double root: the derivative vanishes),
\* <<6, -1, -18, 12>> (Newton cycles between the rates 0 and 1 for ever),
\* and lists with a root at the guess or one step from it.
IrrCashFlowLists ==
    { <<>>, <<Whole(-100)>>,
      <<Whole(100), Whole(100), Whole(100)>>,
      <<Whole(-100), Whole(-50), Whole(-25)>>,
      <<Whole(-1), Whole(2), Whole(-1)>>,
      <<Whole(6), Whole(-1), Whole(-18), Whole(12)>>,
      <<Whole(-1), Whole(1)>>,
      <<Whole(-1), Whole(3), Whole(-2)>>,
      <<Whole(-2), Whole(1), Whole(1)>> }
IrrGuesses == {Zero, One, Whole(-1)}
IrrInputs ==
    (IrrCashFlowLists \X IrrGuesses)
        \cup {<< <<Whole(-100), Whole(110)>>, DEFAULT_GUESS >>}
MaxDates == 4
AnnualDates(n) == [k \in 1..n |-> 365 * (k - 1)]
IrrDateLists == {AnnualDates(n) : n \in 0..MaxDates}

\* A call of one of the three functions.
IrrInit ==
    /\ irr_fn \in {"irr", "xirr", "xnpv"}
    /\ \E in \in IrrInputs : irr_cash_flows = in[1] /\ guess = in[2]
    /\ irr_dates \in (IF irr_fn = "irr" THEN {<<>>} ELSE IrrDateLists)
    /\ rate = Zero /\ iterations = 0
    /\ irr_pc = "call" /\ irr_result = NoResult /\ irr_error = NoError
    /\ IrrAlone

IrrRaise(e) ==
    /\ irr_pc' = "raised" /\ irr_error' = e
    /\ UNCHANGED <<irr_result>>

\* calculate_irr, lines 57-66: the checks, then rate = guess.
calculate_irr ==
    /\ irr_pc = "call" /\ irr_fn = "irr"
    /\ LET e == ValidationError("irr", irr_cash_flows, irr_dates)
       IN  IF e # NoError
           THEN IrrRaise(e) /\ UNCHANGED rate
           ELSE /\ rate' = guess /\ irr_pc' = "loop"
                /\ UNCHANGED <<irr_result, irr_error>>
    /\ UNCHANGED <<irr_fn, irr_cash_flows, irr_dates, guess, iterations>>
    /\ UNCHANGED irrFrame

\* calculate_xirr, lines 143-155: the length check, the checks, rate = guess.
calculate_xirr ==
    /\ irr_pc = "call" /\ irr_fn = "xirr"
    /\ LET e == ValidationError("xirr", irr_cash_flows, irr_dates)
       IN  IF e # NoError
           THEN IrrRaise(e) /\ UNCHANGED rate
           ELSE /\ rate' = guess /\ irr_pc' = "loop"
                /\ UNCHANGED <<irr_result, irr_error>>
    /\ UNCHANGED <<irr_fn, irr_cash_flows, irr_dates, guess, iterations>>
    /\ UNCHANGED irrFrame

\* calculate_xnpv, the whole function: dates[0] raises IndexError on empty
\* lists.
calculate_xnpv ==
    /\ irr_pc = "call" /\ irr_fn = "xnpv"
    /\ LET e == ValidationError("xnpv", irr_cash_flows, irr_dates)
       IN  IF e # NoError THEN IrrRaise(e)
           ELSE IF irr_dates = <<>> THEN IrrRaise(IndexError)
           ELSE IF DivisionByZero(guess) THEN IrrRaise(ZeroDivisionError)
           ELSE /\ irr_pc' = "returned" /\ irr_result' = Npv(guess)
                /\ UNCHANGED irr_error
    /\ UNCHANGED <<irr_fn, irr_cash_flows, irr_dates, guess, rate, iterations>>
    /\ UNCHANGED irrFrame

\* One body of the Newton-Raphson loop of calculate_irr / calculate_xirr.
NewtonIteration ==
    /\ irr_pc = "loop" /\ ~CapReached(iterations)
    /\ iterations' = iterations + 1
    /\ IF DivisionByZero(rate)
       THEN IrrRaise(ZeroDivisionError) /\ UNCHANGED rate
       ELSE LET npv == Npv(rate)
                dnpv == NpvDerivative(rate)
            IN  IF BelowTolerance(dnpv)
                THEN IrrRaise(DerivativeTooSmall(irr_fn)) /\ UNCHANGED rate
                ELSE LET new_rate == RSub(rate, RDiv(npv, dnpv))
                     IN  IF BelowTolerance(RSub(new_rate, rate))
                         THEN /\ irr_pc' = "returned"
                              /\ irr_result' = new_rate
                              /\ UNCHANGED <<rate, irr_error>>
                         ELSE /\ rate' = new_rate
                              /\ UNCHANGED <<irr_pc, irr_result, irr_error>>
    /\ UNCHANGED <<irr_fn, irr_cash_flows, irr_dates, guess>>
    /\ UNCHANGED irrFrame

\* The statement after the loop: raise ValueError("... did not converge").
LoopExhausted ==
    /\ irr_pc = "loop" /\ CapReached(iterations)
    /\ IrrRaise(DidNotConverge(irr_fn))
    /\ UNCHANGED <<irr_fn, irr_cash_flows, irr_dates, guess, rate, iterations>>
    /\ UNCHANGED irrFrame

IrrNext ==
    \/ calculate_irr
    \/ calculate_xirr
    \/ calculate_xnpv
    \/ NewtonIteration
    \/ LoopExhausted

\* Every call runs to its end: the code is sequential, so a step that can be
\* taken is taken.
SpecIRR == IrrInit /\ [][IrrNext]_vars /\ WF_vars(IrrNext)

(***************************************************************************)
(* Cash-flow generator: app/calculations/cashflow.py                       *)
(***************************************************************************)
Min(a, b) == IF a < b THEN a ELSE b

IsLeap(y) == (y % 4 = 0 /\ y % 100 # 0) \/ y % 400 = 0

DaysInMonth(y, m) ==
    IF m = 2 THEN (IF IsLeap(y) THEN 29 ELSE 28)
    ELSE IF m \in {4, 6, 9, 11} THEN 30 ELSE 31

\* date + relativedelta(months=n): the day is clipped to the month's end.
AddMonths(d, n) ==
    LET idx == d[1] * 12 + (d[2] - 1) + n
        y == idx \div 12
        m == (idx % 12) + 1
    IN  <<y, m, Min(d[3], DaysInMonth(y, m))>>

\* calculate_days_in_month: the days from period_date to the same date one
\* month later.
calculate_days_in_month(period_date) ==
    LET next_month == AddMonths(period_date, 1)
    IN  DaysInMonth(period_date[1], period_date[2]) - period_date[3]
            + next_month[3]

\* date.isoformat(): the year, month and day fields of "YYYY-MM-DD".
IsoFormat(d) == [year |-> d[1], month |-> d[2], day |-> d[3]]

\* x ** (1 / 12) for the bases the model uses, each a twelfth power.
TwelfthRoot(x) ==
    CHOOSE r \in {Zero, Rat(1, 2), One, Whole(2)} : RPow(r, 12) = x

\* base ** (months / 12)
MonthlyPower(base, months) == RPow(TwelfthRoot(base), months)

\* A faulty variant of calculate_escalation_factor: the annual step counts
\* the years begun, not the years completed.
EscalationFactorYearsBegun(annual_rate, p, frequency) ==
    IF frequency = "monthly"
    THEN MonthlyPower(RAdd(One, annual_rate), p)
    ELSE RPow(RAdd(One, annual_rate), (p + 11) \div 12)

\* calculate_escalation_factor
calculate_escalation_factor(annual_rate, p, frequency) ==
    IF frequency = "monthly"
    THEN MonthlyPower(RAdd(One, annual_rate), p)
    ELSE RPow(RAdd(One, annual_rate), p \div 12)

\* calculate_tenant_rent
calculate_tenant_rent(tenant, p, rent_growth) ==
    LET rent_psf == IF p <= tenant.lease_end_month
                    THEN tenant.in_place_rent_psf
                    ELSE tenant.market_rent_psf
        escalation_factor == MonthlyPower(RAdd(One, rent_growth), p)
    IN  RDiv(RDiv(RMul(RMul(tenant.rsf, rent_psf), escalation_factor),
                  Whole(12)), Whole(1000))

RECURSIVE calculate_total_tenant_rent(_, _, _)
calculate_total_tenant_rent(ts, p, rent_growth) ==
    IF ts = <<>> THEN Zero
    ELSE RAdd(calculate_tenant_rent(Head(ts), p, rent_growth),
              calculate_total_tenant_rent(Tail(ts), p, rent_growth))

RECURSIVE TotalRsf(_)
TotalRsf(ts) ==
    IF ts = <<>> THEN Zero ELSE RAdd(Head(ts).rsf, TotalRsf(Tail(ts)))

\* amortization.calculate_payment
calculate_payment(principal, annual_rate, amortization_months) ==
    IF RLe(principal, Zero) THEN Zero
    ELSE IF amortization_months <= 0 THEN Zero
    ELSE LET monthly_rate == RDiv(annual_rate, Whole(12))
             growth == RPow(RAdd(One, monthly_rate), amortization_months)
         IN  IF monthly_rate = Zero
             THEN RDiv(principal, Whole(amortization_months))
             ELSE RDiv(RMul(RMul(principal, monthly_rate), growth),
                       RSub(growth, One))

\* `loan_amount and loan_amount > 0`: None (the empty tuple here) and 0 are
\* both falsy.
NoLoan == <<>>
HasLoan(a) == a.loan_amount # NoLoan /\ RGt(a.loan_amount, Zero)

\* A faulty variant of PeriodRange: range(hold_period_months).
PeriodRangeShort(hold) == 0..(hold - 1)

\* range(hold_period_months + 1)
PeriodRange(hold) == 0..hold

\* A faulty variant of TotalExpenses: the capex reserve is left out.
TotalExpensesNoCapex(fixed_opex, mgmt_fee, prop_tax, capex) ==
    RAdd(RAdd(fixed_opex, mgmt_fee), prop_tax)

\* total_expenses = fixed_opex + mgmt_fee + prop_tax + capex
TotalExpenses(fixed_opex, mgmt_fee, prop_tax, capex) ==
    RAdd(RAdd(RAdd(fixed_opex, mgmt_fee), prop_tax), capex)

\* A faulty variant of ManagementFeeBase: the fee is taken before vacancy.
ManagementFeeBasePotential(potential_revenue, effective_revenue) == potential_revenue

\* `mgmt_fee = effective_revenue * management_fee_percent`: the fee is taken
\* on the revenue after vacancy, before the fee is added back.
ManagementFeeBase(potential_revenue, effective_revenue) == effective_revenue

\* The first pass for one period: the entry appended to period_data.
PeriodData(a, p) ==
    LET has_tenants == a.tenants # <<>>
        rent_escalation ==
            calculate_escalation_factor(a.rent_growth, p, "monthly")
        base_rent ==
            IF p = 0 THEN Zero
            ELSE IF has_tenants
            THEN calculate_total_tenant_rent(a.tenants, p, a.rent_growth)
            ELSE RDiv(RDiv(RMul(RMul(a.total_sf, a.in_place_rent_psf),
                                rent_escalation), Whole(12)), Whole(1000))
        expense_escalation ==
            calculate_escalation_factor(a.expense_growth, p, "annual")
        expense_sf == IF has_tenants THEN TotalRsf(a.tenants) ELSE a.total_sf
        fixed_opex ==
            RDiv(RDiv(RMul(RMul(expense_sf, a.fixed_opex_psf),
                           expense_escalation), Whole(12)), Whole(1000))
        prop_tax ==
            RDiv(RMul(a.property_tax_amount, expense_escalation), Whole(12))
        capex ==
            RDiv(RDiv(RMul(RMul(expense_sf, a.capex_reserve_psf),
                           expense_escalation), Whole(12)), Whole(1000))
        nnn == a.nnn_lease /\ p > 0
        reimbursement_fixed == IF nnn THEN RAdd(fixed_opex, prop_tax) ELSE Zero
        potential0 == RAdd(base_rent, reimbursement_fixed)
        vacancy_loss == RMul(RNeg(potential0), a.vacancy_rate)
        effective0 == RAdd(potential0, vacancy_loss)
        mgmt_fee ==
            RMul(ManagementFeeBase(potential0, effective0),
                 a.management_fee_percent)
        reimbursement_variable == IF nnn THEN mgmt_fee ELSE Zero
        potential_revenue == RAdd(potential0, reimbursement_variable)
        effective_revenue == RAdd(effective0, reimbursement_variable)
        total_expenses == TotalExpenses(fixed_opex, mgmt_fee, prop_tax, capex)
    IN  [ period |-> p,
          period_date |-> AddMonths(a.acquisition_date, p),
          base_rent |-> base_rent,
          reimbursement_fixed |-> reimbursement_fixed,
          reimbursement_variable |-> reimbursement_variable,
          total_reimbursement |->
              RAdd(reimbursement_fixed, reimbursement_variable),
          potential_revenue |-> potential_revenue,
          vacancy_loss |-> vacancy_loss,
          effective_revenue |-> effective_revenue,
          fixed_opex |-> fixed_opex,
          mgmt_fee |-> mgmt_fee,
          prop_tax |-> prop_tax,
          capex |-> capex,
          total_expenses |-> total_expenses,
          noi |-> RSub(effective_revenue, total_expenses) ]

\* The forward 12-month NOI at the exit period: months inside the hold window
\* would use the computed NOI, the others the exit NOI escalated.
RECURSIVE ForwardNoi(_, _, _, _)
ForwardNoi(a, pd, p, future_month) ==
    IF future_month > 12 THEN Zero
    ELSE RAdd(IF p + future_month <= a.hold_period_months
              THEN pd[p + future_month + 1].noi
              ELSE RMul(pd[p + 1].noi,
                        MonthlyPower(RAdd(One, a.rent_growth), future_month)),
              ForwardNoi(a, pd, p, future_month + 1))

\* A faulty variant of ExitPeriod: exit proceeds are booked in every period.
ExitPeriodAlways(a, p) == TRUE

\* `if period == hold_period_months`
ExitPeriod(a, p) == p = a.hold_period_months

\* A faulty variant of AcquisitionCosts: closing costs are left out.
AcquisitionCostsPriceOnly(a, p) == IF p = 0 THEN a.purchase_price ELSE Zero

\* acquisition_costs of a period
AcquisitionCosts(a, p) ==
    IF p = 0 THEN RAdd(a.purchase_price, a.closing_costs) ELSE Zero

\* The second pass for one period: the locals before rounding.
Finalize(a, pd, p) ==
    LET data == pd[p + 1]
        noi == data.noi
        acquisition_costs == AcquisitionCosts(a, p)
        forward_noi == IF ExitPeriod(a, p) THEN ForwardNoi(a, pd, p, 1) ELSE Zero
        gross_value ==
            IF RGt(a.exit_cap_rate, Zero)
            THEN RDiv(forward_noi, a.exit_cap_rate) ELSE Zero
        sales_costs_amount == RMul(gross_value, a.sales_cost_percent)
        exit_proceeds ==
            IF ExitPeriod(a, p) THEN RSub(gross_value, sales_costs_amount)
            ELSE Zero
        debt == HasLoan(a) /\ p > 0
        interest_expense ==
            IF ~debt THEN Zero
            ELSE IF a.use_actual_365
            THEN RMul(RMul(a.loan_amount, RDiv(a.interest_rate, Whole(365))),
                      Whole(calculate_days_in_month(data.period_date)))
            ELSE RMul(a.loan_amount, RDiv(a.interest_rate, Whole(12)))
        amortizing == debt /\ p > a.io_months
        payment ==
            IF amortizing
            THEN calculate_payment(a.loan_amount, a.interest_rate,
                                   a.amortization_years * 12)
            ELSE Zero
        principal_payment ==
            IF amortizing THEN RSub(payment, interest_expense) ELSE Zero
        debt_service ==
            IF ~debt THEN Zero
            ELSE IF amortizing THEN payment ELSE interest_expense
        unleveraged_cf == RAdd(RSub(noi, acquisition_costs), exit_proceeds)
        leveraged0 == RSub(unleveraged_cf, debt_service)
        leveraged1 ==
            IF p = 0 /\ HasLoan(a) THEN RAdd(leveraged0, a.loan_amount)
            ELSE leveraged0
        leveraged_cf ==
            IF p = a.hold_period_months /\ HasLoan(a)
            THEN RSub(leveraged1, a.loan_amount)
            ELSE leveraged1
    IN  [ period |-> p,
          noi |-> noi,
          acquisition_costs |-> acquisition_costs,
          forward_noi |-> forward_noi,
          exit_proceeds |-> exit_proceeds,
          interest_expense |-> interest_expense,
          principal_payment |-> principal_payment,
          debt_service |-> debt_service,
          unleveraged_cf |-> unleveraged_cf,
          leveraged_cf |-> leveraged_cf ]

\* The record appended to cash_flows: every amount rounded to 2 decimals.
CashFlowRecord(data, l) ==
    [ period |-> data.period,
      date |-> IsoFormat(data.period_date),
      base_rent |-> Round2(data.base_rent),
      reimbursement_revenue |-> Round2(data.total_reimbursement),
      potential_revenue |-> Round2(data.potential_revenue),
      vacancy_loss |-> Round2(data.vacancy_loss),
      effective_revenue |-> Round2(data.effective_revenue),
      fixed_opex |-> Round2(data.fixed_opex),
      management_fee |-> Round2(data.mgmt_fee),
      property_tax |-> Round2(data.prop_tax),
      capex_reserve |-> Round2(data.capex),
      total_expenses |-> Round2(data.total_expenses),
      noi |-> Round2(l.noi),
      acquisition_costs |-> Round2(l.acquisition_costs),
      exit_proceeds |-> Round2(l.exit_proceeds),
      interest_expense |-> Round2(l.interest_expense),
      principal_payment |-> Round2(l.principal_payment),
      debt_service |-> Round2(l.debt_service),
      unleveraged_cash_flow |-> Round2(l.unleveraged_cf),
      leveraged_cash_flow |-> Round2(l.leveraged_cf) ]

\* Input sets.  Rent growth is 0 or 4095 (1 + growth = 2 ** 12, rent doubling
\* every month), so that every monthly escalation factor is rational.  The
\* loans are: none; zero; interest-only on either day count; amortizing at
\* rate 0; amortizing after one interest-only month at a monthly rate of 1
\* (payment 4096 on 4095); amortizing over zero years.
MaxHold == 2
AcquisitionValues ==
    { [date |-> <<2024, 1, 1>>, price |-> Whole(10000)],
      [date |-> <<2023, 12, 31>>, price |-> Rat(80001, 8)] }
RentGrowthValues == {Zero, Whole(4095)}
VacancyValues == {Zero, Rat(1, 2)}
ExitCapValues == {Zero, Rat(1, 10)}
LoanValues ==
    { [loan_amount |-> NoLoan, interest_rate |-> Rat(1, 20), io_months |-> 120,
       amortization_years |-> 30, use_actual_365 |-> TRUE],
      [loan_amount |-> Zero, interest_rate |-> Rat(1, 20), io_months |-> 120,
       amortization_years |-> 30, use_actual_365 |-> TRUE],
      [loan_amount |-> Whole(600), interest_rate |-> Rat(73, 1000),
       io_months |-> 120, amortization_years |-> 30, use_actual_365 |-> TRUE],
      [loan_amount |-> Whole(600), interest_rate |-> Rat(6, 100),
       io_months |-> 120, amortization_years |-> 30, use_actual_365 |-> FALSE],
      [loan_amount |-> Whole(600), interest_rate |-> Zero, io_months |-> 0,
       amortization_years |-> 1, use_actual_365 |-> FALSE],
      [loan_amount |-> Whole(4095), interest_rate |-> Whole(12), io_months |-> 1,
       amortization_years |-> 1, use_actual_365 |-> TRUE],
      [loan_amount |-> Whole(600), interest_rate |-> Rat(6, 100), io_months |-> 0,
       amortization_years |-> 0, use_actual_365 |-> FALSE] }
TenantA ==
    [name |-> "A", rsf |-> Whole(6000), in_place_rent_psf |-> Whole(20),
     market_rent_psf |-> Whole(40), lease_end_month |-> 1]
TenantB ==
    [name |-> "B", rsf |-> Whole(6000), in_place_rent_psf |-> Whole(10),
     market_rent_psf |-> Whole(10), lease_end_month |-> 0]
TenantValues == {<<>>, <<TenantA>>, <<TenantA, TenantB>>}

CashFlowArgs ==
    { [ acquisition_date |-> acq.date,
        hold_period_months |-> hold,
        purchase_price |-> acq.price,
        closing_costs |-> Whole(150),
        total_sf |-> Whole(12000),
        in_place_rent_psf |-> Whole(20),
        market_rent_psf |-> Whole(30),
        rent_growth |-> growth,
        vacancy_rate |-> vacancy,
        fixed_opex_psf |-> One,
        management_fee_percent |-> Rat(1, 10),
        property_tax_amount |-> Whole(12),
        capex_reserve_psf |-> Rat(1, 2),
        expense_growth |-> Rat(1, 10),
        exit_cap_rate |-> cap,
        sales_cost_percent |-> Rat(1, 50),
        loan_amount |-> loan.loan_amount,
        interest_rate |-> loan.interest_rate,
        io_months |-> loan.io_months,
        amortization_years |-> loan.amortization_years,
        tenants |-> ts,
        nnn_lease |-> nnn,
        use_actual_365 |-> loan.use_actual_365 ] :
      acq \in AcquisitionValues, hold \in 0..MaxHold,
      growth \in RentGrowthValues, vacancy \in VacancyValues,
      cap \in ExitCapValues, loan \in LoanValues, ts \in TenantValues,
      nnn \in BOOLEAN }

\* A call of generate_cash_flows.
CashFlowInit ==
    /\ cf_args \in CashFlowArgs
    /\ cf_pc = "pass1" /\ period = 0
    /\ period_data = <<>> /\ cash_flows = <<>>
    /\ cf_locals = NoLocals
    /\ CashFlowAlone

\* One iteration of `for period in range(hold_period_months + 1)`.
FirstPassPeriod ==
    /\ cf_pc = "pass1"
    /\ period \in PeriodRange(cf_args.hold_period_months)
    /\ period_data' = Append(period_data, PeriodData(cf_args, period))
    /\ IF period + 1 \in PeriodRange(cf_args.hold_period_months)
       THEN period' = period + 1 /\ UNCHANGED cf_pc
       ELSE period' = 0 /\ cf_pc' = "pass2"
    /\ UNCHANGED <<cf_args, cash_flows, cf_locals>>
    /\ UNCHANGED cfFrame

\* One iteration of `for i, data in enumerate(period_data)`; after the last
\* one the function returns cash_flows.
SecondPassPeriod ==
    /\ cf_pc = "pass2"
    /\ period < Len(period_data)
    /\ LET data == period_data[period + 1]
           l == Finalize(cf_args, period_data, data.period)
       IN  /\ cf_locals' = l
           /\ cash_flows' = Append(cash_flows, CashFlowRecord(data, l))
    /\ IF period + 1 < Len(period_data)
       THEN period' = period + 1 /\ UNCHANGED cf_pc
       ELSE period' = period /\ cf_pc' = "returned"
    /\ UNCHANGED <<cf_args, period_data>>
    /\ UNCHANGED cfFrame

CashFlowNext == FirstPassPeriod \/ SecondPassPeriod

SpecCashFlow == CashFlowInit /\ [][CashFlowNext]_vars

(***************************************************************************)
(* Waterfall claims.  wf_period holds the locals of the period processed   *)
(* last (index wf_i - 1), before the 2-decimal rounding of the record.     *)
(***************************************************************************)
WfProcessed == wf_i > 0
WfDone == wf_i = Len(leveraged_cash_flows)
WfPositive == WfProcessed /\ RGt(wf_period.cash_flow, Zero)

EquityPaid == RAdd(wf_period.lp_equity_return, wf_period.gp_equity_return)
PrefPaid == RAdd(wf_period.lp_pref_paid, wf_period.gp_pref_paid)
ProfitPaid ==
    RAdd(RAdd(wf_period.lp_profit_share, wf_period.gp_profit_share),
         wf_period.gp_promote_paid)
UnreturnedAfter ==
    RAdd(wf_period.lp_equity_unreturned, wf_period.gp_equity_unreturned)
AccruedAfter == RAdd(wf_period.lp_pref_accrued, wf_period.gp_pref_accrued)

RECURSIVE SumField(_, _)
SumField(recs, f) ==
    IF recs = <<>> THEN Zero ELSE RAdd(Head(recs)[f], SumField(Tail(recs), f))

RECURSIVE SumPositive(_)
SumPositive(cfs) ==
    IF cfs = <<>> THEN Zero
    ELSE RAdd(RMax(Zero, Head(cfs)), SumPositive(Tail(cfs)))

Cents(n) == Rat(n, 100)

\* C1 (as stated): preferred return is served before capital: no equity
\* return is paid in a period unless both parties' accrued preferred is zero
\* after the period's pref payment, and no profit or promote is paid unless
\* accrued preferred and unreturned equity are both zero after the period.
C1_PrefBeforeCapital ==
    WfPositive =>
        /\ RGt(EquityPaid, Zero) =>
               /\ wf_period.lp_pref_accrued = Zero
               /\ wf_period.gp_pref_accrued = Zero
        /\ RGt(ProfitPaid, Zero) =>
               /\ AccruedAfter = Zero
               /\ UnreturnedAfter = Zero

\* C1 (amended): the order of the code is capital, then preferred return,
\* then profit.  In every period with positive cash flow the equity paid is
\* min(cash flow, unreturned equity), the pref paid is min(what is left,
\* accrued pref), and the rest is the base of the profit split; so no pref is
\* paid unless unreturned equity is zero after the period's equity payment,
\* and no profit or promote is paid unless unreturned equity and accrued
\* pref are both zero after the period's payments.
C1_CapitalBeforePref ==
    WfPositive =>
        /\ EquityPaid = RMin(wf_period.cash_flow,
                             RAdd(UnreturnedAfter, EquityPaid))
        /\ PrefPaid = RMin(RSub(wf_period.cash_flow, EquityPaid),
                           RAdd(AccruedAfter, PrefPaid))
        /\ wf_period.remaining =
               RSub(RSub(wf_period.cash_flow, EquityPaid), PrefPaid)
        /\ RGt(PrefPaid, Zero) => UnreturnedAfter = Zero
        /\ RGt(ProfitPaid, Zero) =>
               /\ UnreturnedAfter = Zero
               /\ AccruedAfter = Zero

\* A period in which all three tiers are paid.
C1_Witness ==
    /\ WfPositive
    /\ RGt(EquityPaid, Zero) /\ RGt(PrefPaid, Zero) /\ RGt(ProfitPaid, Zero)

FinalSplitSum ==
    RAdd(RAdd(final_split.lp_split, final_split.gp_split),
         final_split.gp_promote)

PaidOut == RAdd(total_to_lp(wf_period), total_to_gp(wf_period))

StoredPaidOut(rec) == RAdd(rec.total_to_lp, rec.total_to_gp)

\* C2 (as stated): in every period with positive cash flow, for every
\* configuration, what is paid to LP and GP sums to the period's cash flow.
C2_ConservedAnySplit == WfPositive => PaidOut = wf_period.cash_flow

\* C2 (amended): for every configuration whose final_split fractions sum to
\* 1 (and any lp_share, gp_share), in every period with positive cash flow
\* the seven amounts paid sum to the cash flow before rounding, and the
\* stored total_to_lp + total_to_gp is within one cent of the stored cash
\* flow; over the periods processed, the stored totals sum to the positive
\* cash flows within one cent per record.
C2_ConservedUnitSplit ==
    (WfProcessed /\ FinalSplitSum = One) =>
        /\ RGt(wf_period.cash_flow, Zero) =>
               /\ RAdd(RAdd(EquityPaid, PrefPaid), ProfitPaid)
                      = wf_period.cash_flow
               /\ PaidOut = wf_period.cash_flow
               /\ RLe(RAbs(RSub(StoredPaidOut(distributions[wf_i]),
                                distributions[wf_i].cash_flow)),
                      Cents(1))
        /\ RLe(RAbs(RSub(RAdd(SumField(distributions, "total_to_lp"),
                              SumField(distributions, "total_to_gp")),
                         SumPositive(SubSeq(leveraged_cash_flows, 1, wf_i)))),
               Cents(wf_i))

\* A period that pays capital and profit under a split that sums to 1 while
\* the equity shares do not.
C2_Witness ==
    /\ WfPositive /\ FinalSplitSum = One
    /\ RAdd(lp_share, gp_share) # One
    /\ RGt(EquityPaid, Zero) /\ RGt(ProfitPaid, Zero)

StoredEquityReturned ==
    RAdd(SumField(distributions, "lp_equity_return"),
         SumField(distributions, "gp_equity_return"))

\* Preferred return owed over the run: what was paid plus what is still
\* accrued at the end.
PrefOwed ==
    RAdd(RAdd(SumField(distributions, "lp_preferred_return"),
              SumField(distributions, "gp_preferred_return")),
         RAdd(lp_pref_accrued, gp_pref_accrued))

\* C3 (as stated): once the positive cash flows cover total equity plus the
\* pref owed, the equity returned over all periods is total_equity.
C3_EquityReturned ==
    (WfDone /\ RGe(SumPositive(leveraged_cash_flows),
                   RAdd(total_equity, PrefOwed))) =>
        RLe(RAbs(RSub(StoredEquityReturned, total_equity)),
            Cents(Len(distributions)))

\* C3 (amended): the same, provided lp_share + gp_share = 1.  The formula
\* asks less of the cash flows than the claim does: covering total equity
\* alone is enough, because capital is returned first.
C3_EquityReturnedUnitShares ==
    (WfDone /\ RAdd(lp_share, gp_share) = One
            /\ RGe(SumPositive(leveraged_cash_flows), total_equity)) =>
        RLe(RAbs(RSub(StoredEquityReturned, total_equity)),
            Cents(Len(distributions)))

\* Equity of 100 returned over two periods, with pref accrued and paid.
C3_Witness ==
    /\ WfDone /\ RAdd(lp_share, gp_share) = One
    /\ total_equity = Whole(100) /\ pref_return # Zero
    /\ RGe(SumPositive(leveraged_cash_flows), RAdd(total_equity, PrefOwed))
    /\ Len(distributions) = 3
    /\ RGt(distributions[2].lp_equity_return, Zero)
    /\ RGt(distributions[3].lp_equity_return, Zero)
    /\ RGt(distributions[3].lp_preferred_return, Zero)

(***************************************************************************)
(* IRR solver claims.  All are checked under SpecIRR.                      *)
(***************************************************************************)

\* The input is one the functions must reject: for calculate_irr and
\* calculate_xirr fewer than 2 entries, no strictly positive or no strictly
\* negative entry; for calculate_xirr and calculate_xnpv lists of different
\* length.
InvalidInput ==
    \/ /\ irr_fn \in {"irr", "xirr"}
       /\ \/ Len(irr_cash_flows) < 2
          \/ ~ \E k \in 1..Len(irr_cash_flows) : RGt(irr_cash_flows[k], Zero)
          \/ ~ \E k \in 1..Len(irr_cash_flows) : RLt(irr_cash_flows[k], Zero)
    \/ /\ irr_fn \in {"xirr", "xnpv"}
       /\ Len(irr_cash_flows) # Len(irr_dates)

InvalidInputMessages ==
    { "At least 2 cash flows required",
      "Cash flows must contain both positive and negative values",
      "Cash flows and dates arrays must have same length" }

ConvergenceMessages ==
    { "IRR calculation failed: derivative too small",
      "XIRR calculation failed: derivative too small",
      "IRR calculation did not converge",
      "XIRR calculation did not converge" }

\* C4: on invalid input (fewer than 2 cash flows, no strictly positive or no
\* strictly negative cash flow, or for calculate_xirr / calculate_xnpv lists
\* of different length) the call raises an invalid-input error before any
\* Newton iteration is performed; no rate is ever returned for such input.
C4_InvalidInputRejected ==
    InvalidInput =>
        /\ irr_pc \in {"call", "raised"}
        /\ iterations = 0
        /\ irr_result = NoResult
        /\ irr_pc = "raised" => irr_error.message \in InvalidInputMessages

C4_Witness ==
    /\ irr_pc = "raised" /\ irr_fn = "xirr"
    /\ Len(irr_cash_flows) = Len(irr_dates)
    /\ Len(irr_cash_flows) >= 2
    /\ InvalidInput

\* C5: a convergence failure (derivative below tolerance, or iteration cap
\* reached) is raised with an error kind that no invalid-input error has, so
\* that the kind alone tells the two classes apart.
C5_ConvergenceKindDistinct ==
    (irr_pc = "raised" /\ irr_error.message \in ConvergenceMessages) =>
        \A m \in InvalidInputMessages : irr_error.kind # ValueError(m).kind

\* C6: the Newton-Raphson loop always terminates: it performs at most
\* MAX_ITERATIONS iterations, returns a rate only when the last update step
\* was smaller than the tolerance, raises when the cap is reached, and every
\* call eventually returns or raises.
C6_Terminates ==
    /\ [](iterations <= MAX_ITERATIONS)
    /\ []((irr_pc = "returned" /\ irr_fn \in {"irr", "xirr"}) =>
            BelowTolerance(RSub(irr_result, rate)))
    /\ []((irr_pc = "loop" /\ iterations = MAX_ITERATIONS) =>
            (ENABLED LoopExhausted /\ ~ENABLED NewtonIteration))
    /\ <>IrrTerminated

C6_Witness ==
    /\ irr_pc = "raised" /\ iterations = MAX_ITERATIONS
    /\ irr_error = DidNotConverge(irr_fn)
    /\ irr_fn = "xirr"

(***************************************************************************)
(* Cash-flow generator claims.  All are checked under SpecCashFlow.        *)
(* cf_locals holds the second pass's locals of the period processed last,  *)
(* before the 2-decimal rounding of the record.                            *)
(***************************************************************************)
CfReturned == cf_pc = "returned"
CfFinalized == cf_locals.period >= 0
CfData == period_data[cf_locals.period + 1]
CfRecord == cash_flows[cf_locals.period + 1]
CfHold == cf_args.hold_period_months

\* Loan proceeds and payoff of a period, as the leveraged cash flow books
\* them.
LoanProceeds(p) == IF p = 0 /\ HasLoan(cf_args) THEN cf_args.loan_amount ELSE Zero
LoanPayoff(p) == IF p = CfHold /\ HasLoan(cf_args) THEN cf_args.loan_amount ELSE Zero

\* C7: every record satisfies, on the values before rounding:
\* total_expenses = fixed_opex + management_fee + property_tax +
\* capex_reserve; noi = effective_revenue - total_expenses;
\* unleveraged_cash_flow = noi - acquisition_costs + exit_proceeds;
\* leveraged_cash_flow = unleveraged_cash_flow - debt_service, plus the loan
\* amount at period 0 only and minus the loan amount at the exit period only.
\* Each stored field is the 2-decimal rounding of its value.
C7_RecordIdentities ==
    CfFinalized =>
        /\ CfData.total_expenses =
               RAdd(RAdd(RAdd(CfData.fixed_opex, CfData.mgmt_fee),
                         CfData.prop_tax), CfData.capex)
        /\ cf_locals.noi = RSub(CfData.effective_revenue, CfData.total_expenses)
        /\ cf_locals.unleveraged_cf =
               RAdd(RSub(cf_locals.noi, cf_locals.acquisition_costs),
                    cf_locals.exit_proceeds)
        /\ cf_locals.leveraged_cf =
               RSub(RAdd(RSub(cf_locals.unleveraged_cf, cf_locals.debt_service),
                         LoanProceeds(cf_locals.period)),
                    LoanPayoff(cf_locals.period))
        /\ CfRecord.total_expenses = Round2(CfData.total_expenses)
        /\ CfRecord.fixed_opex = Round2(CfData.fixed_opex)
        /\ CfRecord.management_fee = Round2(CfData.mgmt_fee)
        /\ CfRecord.property_tax = Round2(CfData.prop_tax)
        /\ CfRecord.capex_reserve = Round2(CfData.capex)
        /\ CfRecord.effective_revenue = Round2(CfData.effective_revenue)
        /\ CfRecord.noi = Round2(cf_locals.noi)
        /\ CfRecord.unleveraged_cash_flow = Round2(cf_locals.unleveraged_cf)
        /\ CfRecord.leveraged_cash_flow = Round2(cf_locals.leveraged_cf)

\* An amortizing exit period of a leveraged NNN deal with tenants: every term
\* of the identities is nonzero.
C7_Witness ==
    /\ CfReturned /\ CfHold = 2 /\ HasLoan(cf_args)
    /\ cf_args.nnn_lease /\ cf_args.tenants # <<>>
    /\ cf_locals.period = CfHold
    /\ cf_locals.principal_payment # Zero
    /\ cf_locals.exit_proceeds # Zero
    /\ CfData.mgmt_fee # Zero
    /\ cash_flows[1].leveraged_cash_flow # cash_flows[1].unleveraged_cash_flow

\* C8: generate_cash_flows returns exactly hold_period_months + 1 records
\* whose period fields are 0, 1, ..., hold_period_months in order, for every
\* hold period >= 0 and every loan, tenant and NNN configuration.
C8_OneRecordPerMonth ==
    /\ Len(cash_flows) <= CfHold + 1
    /\ \A k \in 1..Len(cash_flows) : cash_flows[k].period = k - 1
    /\ CfReturned => Len(cash_flows) = CfHold + 1

C8_Witness ==
    /\ CfReturned /\ CfHold = 2 /\ Len(cash_flows) = 3
    /\ cf_args.tenants = <<TenantA, TenantB>>
    /\ HasLoan(cf_args) /\ ~cf_args.nnn_lease

\* C9: acquisition_costs is purchase_price + closing_costs in the period-0
\* record (stored rounded to 2 decimals) and zero in every other record.
C9_AcquisitionAtPeriodZero ==
    /\ \A k \in 1..Len(cash_flows) :
           cash_flows[k].acquisition_costs =
               IF k = 1
               THEN Round2(RAdd(cf_args.purchase_price, cf_args.closing_costs))
               ELSE Zero
    /\ CfFinalized =>
           cf_locals.acquisition_costs =
               IF cf_locals.period = 0
               THEN RAdd(cf_args.purchase_price, cf_args.closing_costs)
               ELSE Zero

C9_Witness ==
    /\ CfReturned /\ CfHold = 2
    /\ cash_flows[1].acquisition_costs = Whole(10150)
    /\ cash_flows[3].acquisition_costs = Zero

\* C10 (as stated): exit_proceeds is zero in every record but the final one,
\* and the final record's exit_proceeds is strictly positive whenever
\* exit_cap_rate > 0.
C10_ExitPositive ==
    /\ \A k \in 1..Len(cash_flows) :
           k # CfHold + 1 => cash_flows[k].exit_proceeds = Zero
    /\ (CfReturned /\ RGt(cf_args.exit_cap_rate, Zero)) =>
           RGt(cash_flows[CfHold + 1].exit_proceeds, Zero)

\* C10 (amended): exit_proceeds is zero in every record but the final one;
\* in the final one it is forward NOI / exit_cap_rate less sales costs when
\* exit_cap_rate > 0 and zero otherwise, so with sales_cost_percent < 1 it is
\* strictly positive exactly when exit_cap_rate > 0 and the forward 12-month
\* NOI is strictly positive.  The stored value is its 2-decimal rounding.
C10_ExitPositiveWithNoi ==
    /\ \A k \in 1..Len(cash_flows) :
           k # CfHold + 1 => cash_flows[k].exit_proceeds = Zero
    /\ (CfFinalized /\ cf_locals.period # CfHold) =>
           cf_locals.exit_proceeds = Zero
    /\ (CfReturned /\ RLt(cf_args.sales_cost_percent, One)) =>
           /\ cf_locals.exit_proceeds =
                  IF RGt(cf_args.exit_cap_rate, Zero)
                  THEN RMul(RDiv(cf_locals.forward_noi, cf_args.exit_cap_rate),
                            RSub(One, cf_args.sales_cost_percent))
                  ELSE Zero
           /\ RGt(cf_locals.exit_proceeds, Zero) <=>
                  (RGt(cf_args.exit_cap_rate, Zero)
                       /\ RGt(cf_locals.forward_noi, Zero))
           /\ cash_flows[CfHold + 1].exit_proceeds =
                  Round2(cf_locals.exit_proceeds)
           /\ (RGt(cf_args.exit_cap_rate, Zero)
                   /\ RGt(cf_locals.forward_noi, Zero)) =>
                  RGe(cash_flows[CfHold + 1].exit_proceeds, Zero)

\* A sale at a positive price after two months of operations.
C10_Witness ==
    /\ CfReturned /\ CfHold = 2
    /\ RGt(cf_args.exit_cap_rate, Zero)
    /\ RGt(cf_locals.forward_noi, Zero)
    /\ RGt(cash_flows[3].exit_proceeds, Zero)
    /\ cash_flows[2].exit_proceeds = Zero


(***************************************************************************)
(* Loan proceeds and payoff in the leveraged cash flow.                    *)
(***************************************************************************)
\* The origination fee a loan is configured with: Loan.origination_fee_percent
\* (default 0.01) of the loan amount.  generate_cash_flows has no parameter
\* for it and never reads it.
origination_fee_percent == Rat(1, 100)
OriginationFee(a) ==
    IF HasLoan(a) THEN RMul(a.loan_amount, origination_fee_percent) ELSE Zero

\* C11: with a loan, the period-0 leveraged cash flow exceeds the period-0
\* unleveraged cash flow by exactly the net loan proceeds, the loan amount
\* minus the configured origination fee; at the exit period the leveraged
\* cash flow is the unleveraged one less debt service less the full original
\* loan amount.  (The exit period is taken to be a later period than 0.)
C11_NetLoanProceeds ==
    (CfFinalized /\ HasLoan(cf_args) /\ CfHold > 0) =>
        /\ cf_locals.period = 0 =>
               RSub(cf_locals.leveraged_cf, cf_locals.unleveraged_cf) =
                   RSub(cf_args.loan_amount, OriginationFee(cf_args))
        /\ cf_locals.period = CfHold =>
               cf_locals.leveraged_cf =
                   RSub(RSub(cf_locals.unleveraged_cf, cf_locals.debt_service),
                        cf_args.loan_amount)


(***************************************************************************)
(* Amortization engine: app/calculations/amortization.py                   *)
(***************************************************************************)
\* calculate_remaining_balance without the floor: principal * g - payment *
\* ((g - 1) / monthly_rate), g = (1 + monthly_rate) ** payments_completed.
ClosedFormBalance(principal, monthly_rate, payment, payments_completed) ==
    LET g == RPow(RAdd(One, monthly_rate), payments_completed)
    IN  RSub(RMul(principal, g),
             RMul(payment, RDiv(RSub(g, One), monthly_rate)))

\* calculate_remaining_balance
calculate_remaining_balance(principal, annual_rate, amortization_months, payments_completed) ==
    LET monthly_rate == RDiv(annual_rate, Whole(12))
        payment == calculate_payment(principal, annual_rate,
                                     amortization_months)
    IN  IF monthly_rate = Zero
        THEN RSub(principal, RMul(payment, Whole(payments_completed)))
        ELSE RMax(Zero, ClosedFormBalance(principal, monthly_rate, payment,
                                          payments_completed))

\* A faulty variant of InterestOnly: the interest-only window ends one
\* period early.
InterestOnlyShort(a, p) == p < a.io_months

\* `if period <= io_months`
InterestOnly(a, p) == p <= a.io_months

\* A faulty variant of RemainingAmortPeriods: the payment is always computed
\* on the full amortization term.
RemainingAmortPeriodsFullTerm(a, p) == a.amortization_months

\* remaining_amort_periods
RemainingAmortPeriods(a, p) ==
    a.amortization_months - (p - a.io_months - 1)

\* A faulty variant of Interest: interest is charged on the original
\* principal.
InterestOnPrincipal(a, bal) ==
    RMul(a.principal, RDiv(a.annual_rate, Whole(12)))

\* interest = balance * monthly_rate
Interest(a, bal) == RMul(bal, RDiv(a.annual_rate, Whole(12)))

\* The body of the loop for one period, up to ending_balance: the locals
\* before rounding.
ScheduleLocals(a, bal, p) ==
    LET interest == Interest(a, bal)
        remaining_amort_periods == RemainingAmortPeriods(a, p)
        level_payment ==
            calculate_payment(bal, a.annual_rate, remaining_amort_periods)
        principal_pmt ==
            IF InterestOnly(a, p) THEN Zero
            ELSE IF remaining_amort_periods > 0
            THEN RMin(RSub(level_payment, interest), bal)
            ELSE bal
        payment ==
            IF InterestOnly(a, p) THEN interest
            ELSE IF remaining_amort_periods > 0
            THEN RAdd(principal_pmt, interest)
            ELSE RAdd(bal, interest)
    IN  [ period |-> p,
          balance |-> bal,
          interest |-> interest,
          principal_pmt |-> principal_pmt,
          payment |-> payment,
          ending_balance |-> RSub(bal, principal_pmt),
          remaining_amort_periods |-> remaining_amort_periods ]

\* The row appended to schedule: every amount rounded to 2 decimals.
ScheduleRecord(l, first) ==
    [ period |-> l.period,
      date |-> IsoFormat(AddMonths(first, l.period - 1)),
      beginning_balance |-> Round2(l.balance),
      payment |-> Round2(l.payment),
      interest |-> Round2(l.interest),
      principal |-> Round2(l.principal_pmt),
      ending_balance |-> Round2(RMax(Zero, l.ending_balance)) ]

\* Input sets.  The monthly rates are 0, 1/2 and 1, so that every payment is
\* a small rational; 500.005 is a principal that is not a whole number of
\* cents.
MaxMonths == 4
PrincipalValues == {Whole(-100), Zero, Whole(1200), Rat(100001, 200)}
AnnualRateValues == {Zero, Whole(6), Whole(12)}
AmortizationMonthsValues == {0, 2, 3}
IoMonthsValues == {0, 1, 2}
StartDateValues == {NoDate, <<2023, 12, 31>>}
TodayValues == {<<2024, 1, 31>>, <<2024, 2, 1>>}
AmortizationArgs ==
    [ principal : PrincipalValues,
      annual_rate : AnnualRateValues,
      amortization_months : AmortizationMonthsValues,
      io_months : IoMonthsValues,
      total_months : 0..MaxMonths,
      start_date : StartDateValues ]

\* d1 is not a later day than d2.
DateLe(d1, d2) ==
    \/ d1[1] < d2[1]
    \/ d1[1] = d2[1] /\ d1[2] < d2[2]
    \/ d1[1] = d2[1] /\ d1[2] = d2[2] /\ d1[3] <= d2[3]

\* Entry of generate_amortization_schedule with arguments a on day t, up to
\* the head of the loop; `range(1, total_months + 1)` is empty when
\* total_months < 1 and the function returns the empty schedule.
ScheduleEntry(a, t) ==
    /\ am_args' = a
    /\ today' = t
    /\ start_date' = IF a.start_date = NoDate THEN t ELSE a.start_date
    /\ balance' = a.principal
    /\ schedule' = <<>>
    /\ am_period' = 1
    /\ am_row' = NoRow
    /\ am_pc' = IF a.total_months >= 1 THEN "loop" ELSE "returned"

\* A first call of generate_amortization_schedule.
AmortizationInit ==
    /\ am_args \in AmortizationArgs
    /\ today \in TodayValues
    /\ start_date = IF am_args.start_date = NoDate THEN today
                    ELSE am_args.start_date
    /\ balance = am_args.principal
    /\ schedule = <<>>
    /\ am_period = 1
    /\ am_row = NoRow
    /\ am_pc = IF am_args.total_months >= 1 THEN "loop" ELSE "returned"
    /\ am_returned = <<>>
    /\ AmortizationAlone

\* One iteration of `for period in range(1, total_months + 1)`; the function
\* returns after the last one, or after the one that brings balance to 0.
SchedulePeriod ==
    /\ am_pc = "loop"
    /\ LET l == ScheduleLocals(am_args, balance, am_period)
           next == RMax(Zero, l.ending_balance)
       IN  /\ am_row' = l
           /\ schedule' = Append(schedule, ScheduleRecord(l, start_date))
           /\ balance' = next
           /\ IF next = Zero \/ am_period = am_args.total_months
              THEN am_pc' = "returned" /\ UNCHANGED am_period
              ELSE am_period' = am_period + 1 /\ UNCHANGED am_pc
    /\ UNCHANGED <<am_args, today, start_date, am_returned>>
    /\ UNCHANGED amFrame

\* The caller keeps the schedule returned and calls again with the same
\* arguments, on the same day or a later one.
CallAgain ==
    /\ am_pc = "returned"
    /\ am_returned = <<>>
    /\ am_returned' = <<schedule>>
    /\ \E t \in TodayValues :
          /\ DateLe(today, t)
          /\ ScheduleEntry(am_args, t)
    /\ UNCHANGED amFrame

AmortizationNext == SchedulePeriod \/ CallAgain

SpecAmortization == AmortizationInit /\ [][AmortizationNext]_vars


(***************************************************************************)
(* Amortization schedule claims.  All are checked under SpecAmortization.  *)
(* am_row holds the locals of the row appended last, before the 2-decimal  *)
(* rounding of the row.                                                    *)
(***************************************************************************)
AmReturned == am_pc = "returned"
AmRowDone == am_row.period >= 1
AmLastRow == schedule[Len(schedule)]
AmMonthlyRate == RDiv(am_args.annual_rate, Whole(12))

\* C12: for a loan with io_months > 0, every row with period <= io_months
\* has principal exactly 0, payment equal to interest and the balance
\* unchanged: the ending balance is the original principal (the stored value
\* is its 2-decimal rounding).
C12_InterestOnlyRows ==
    (AmRowDone /\ am_args.io_months > 0 /\ am_row.period <= am_args.io_months
        /\ RGe(am_args.principal, Zero)) =>
        /\ am_row.principal_pmt = Zero
        /\ am_row.payment = am_row.interest
        /\ am_row.ending_balance = am_args.principal
        /\ balance = am_args.principal
        /\ \A i \in 1..Len(schedule) :
              /\ schedule[i].principal = Zero
              /\ schedule[i].payment = schedule[i].interest
              /\ schedule[i].ending_balance = Round2(am_args.principal)
              /\ schedule[i].beginning_balance = Round2(am_args.principal)

\* The second row of a two-month interest-only window on a loan that
\* bears interest.
C12_Witness ==
    /\ am_args.io_months = 2 /\ am_row.period = 2 /\ Len(schedule) = 2
    /\ RGt(am_args.principal, Zero)
    /\ RGt(AmLastRow.interest, Zero)
    /\ AmLastRow.principal = Zero

\* C13: for an amortizing loan (principal > 0, amortization_months > 0)
\* whose schedule runs through the end of the amortization term
\* (total_months >= io_months + amortization_months), the last row's
\* ending_balance is within a cent of zero (it is exactly zero); and for
\* every loan no row's ending_balance is negative, and a row with
\* period > io_months never has a larger ending_balance than the row before
\* it (than the principal, for the first row of a loan).
C13_PaidOffAndNonIncreasing ==
    /\ (AmReturned /\ RGt(am_args.principal, Zero)
            /\ am_args.amortization_months > 0
            /\ am_args.total_months >=
                   am_args.io_months + am_args.amortization_months) =>
           /\ Len(schedule) >= 1
           /\ RLe(RAbs(AmLastRow.ending_balance), Rat(1, 100))
           /\ AmLastRow.ending_balance = Zero
           /\ balance = Zero
    /\ \A i \in 1..Len(schedule) :
           /\ RGe(schedule[i].ending_balance, Zero)
           /\ (i > 1 /\ schedule[i].period > am_args.io_months) =>
                  RLe(schedule[i].ending_balance,
                      schedule[i - 1].ending_balance)
           /\ (i = 1 /\ schedule[i].period > am_args.io_months
                   /\ RGe(am_args.principal, Zero)) =>
                  RLe(schedule[i].ending_balance, Round2(am_args.principal))
    /\ (AmRowDone /\ am_row.period > am_args.io_months
            /\ RGe(am_row.balance, Zero)) =>
           /\ RLe(am_row.ending_balance, am_row.balance)
           /\ RGe(am_row.ending_balance, Zero)

\* A loan with one interest-only month and a three-month amortization, run
\* for all four months: the balance falls in each amortizing row and ends
\* at zero.
C13_Witness ==
    /\ AmReturned /\ Len(schedule) = 4
    /\ am_args.io_months = 1 /\ am_args.amortization_months = 3
    /\ RGt(am_args.annual_rate, Zero)
    /\ RLt(schedule[2].ending_balance, schedule[1].ending_balance)
    /\ RLt(schedule[3].ending_balance, schedule[2].ending_balance)
    /\ RGt(schedule[3].ending_balance, Zero)
    /\ schedule[4].ending_balance = Zero

\* C14: every row satisfies, on the values before rounding,
\* ending_balance = beginning_balance - principal, floored at 0, and
\* interest = beginning_balance * (annual_rate / 12); each stored field is
\* the 2-decimal rounding of its value, so the stored ending_balance is
\* within a cent of max(0, beginning_balance - principal); each row's
\* beginning_balance equals the previous row's ending_balance, and the first
\* row's is the loan principal.
C14_RowIdentities ==
    AmRowDone =>
        /\ am_row.ending_balance = RSub(am_row.balance, am_row.principal_pmt)
        /\ balance = RMax(Zero, RSub(am_row.balance, am_row.principal_pmt))
        /\ am_row.interest = RMul(am_row.balance, AmMonthlyRate)
        /\ AmLastRow.beginning_balance = Round2(am_row.balance)
        /\ AmLastRow.principal = Round2(am_row.principal_pmt)
        /\ AmLastRow.interest = Round2(am_row.interest)
        /\ AmLastRow.ending_balance = Round2(balance)
        /\ schedule[1].beginning_balance = Round2(am_args.principal)
        /\ \A i \in 1..Len(schedule) :
              /\ RLe(RAbs(RSub(schedule[i].ending_balance,
                               RMax(Zero, RSub(schedule[i].beginning_balance,
                                               schedule[i].principal)))),
                     Rat(1, 100))
              /\ i > 1 => schedule[i].beginning_balance =
                              schedule[i - 1].ending_balance

\* The third row of an amortizing loan of 500.005 at interest: principal
\* has been paid in two rows and the amounts are not whole cents.
C14_Witness ==
    /\ AmRowDone /\ Len(schedule) = 3
    /\ am_args.principal = Rat(100001, 200)
    /\ RGt(am_args.annual_rate, Zero)
    /\ RGt(schedule[2].principal, Zero) /\ RGt(schedule[3].principal, Zero)
    /\ RGt(schedule[3].ending_balance, Zero)
    /\ am_row.ending_balance # schedule[3].ending_balance

\* C17: generate_amortization_schedule called twice with the same arguments
\* returns identical rows, date fields included, whether or not start_date
\* is given and whenever the calls are made.
C17_SameArgumentsSameRows ==
    (AmReturned /\ am_returned # <<>>) => schedule = am_returned[1]


(***************************************************************************)
(* Calls of the engine's pure functions.                                   *)
(***************************************************************************)
\* The property-tax escalation factor, row 4 of the spreadsheet:
\* =IF(AND(period > 1, MOD(period - 1, 12) = 0), previous * (1 + rate),
\* previous), starting from 1 at period 0.
RECURSIVE calculate_property_tax_escalation(_, _)
calculate_property_tax_escalation(annual_rate, p) ==
    IF p <= 0 THEN One
    ELSE LET previous == calculate_property_tax_escalation(annual_rate, p - 1)
         IN  IF p > 1 /\ (p - 1) % 12 = 0
             THEN RMul(previous, RAdd(One, annual_rate))
             ELSE previous

\* Input sets.  A monthly escalation is called with growth 0 or 4095 only,
\* where 1 + growth is a twelfth power.
MaxPayments == 4
MaxEscalationPeriod == 25
BalancePrincipals == {Zero, Whole(1200), Rat(100001, 200)}
BalanceTerms == {0, 2, 3}
EscalationRates == {Zero, Rat(1, 10), One}
RemainingBalanceCalls ==
    [ fn : {"calculate_remaining_balance"},
      principal : BalancePrincipals,
      annual_rate : AnnualRateValues,
      amortization_months : BalanceTerms,
      payments_completed : 0..MaxPayments ]
EscalationFactorCalls ==
    [ fn : {"calculate_escalation_factor"},
      annual_rate : EscalationRates,
      period : 0..MaxEscalationPeriod,
      frequency : {"annual"} ]
    \cup
    [ fn : {"calculate_escalation_factor"},
      annual_rate : RentGrowthValues,
      period : 0..MaxEscalationPeriod,
      frequency : {"monthly"} ]
PropertyTaxEscalationCalls ==
    [ fn : {"calculate_property_tax_escalation"},
      annual_rate : EscalationRates,
      period : 0..MaxEscalationPeriod ]

\* calculate_tenant_rent is called for a tenant of a lease: the Tenant value
\* carries the lease's area, rents and end month; the lease's rollover
\* settings (Lease.apply_rollover_costs, ti_buildout_months,
\* free_rent_months) are not fields of Tenant and do not reach the function.
MaxRentPeriod == 4
LeaseEndValues == {0, 1, MaxRentPeriod + 1}
TenantRentCalls ==
    [ fn : {"calculate_tenant_rent"},
      tenant : [ name : {"A"}, rsf : {Whole(6000)},
                 in_place_rent_psf : {Whole(20)},
                 market_rent_psf : {Whole(40)},
                 lease_end_month : LeaseEndValues ],
      period : 0..MaxRentPeriod,
      rent_growth : RentGrowthValues,
      apply_rollover_costs : BOOLEAN,
      ti_buildout_months : {0, 1},
      free_rent_months : {0, 1} ]

\* A function is called with arguments drawn from the input sets.
FunctionInit ==
    /\ fn_call \in RemainingBalanceCalls \cup EscalationFactorCalls
                       \cup PropertyTaxEscalationCalls \cup TenantRentCalls
    /\ fn_pc = "called"
    /\ fn_result = NoResult
    /\ FunctionAlone

RemainingBalanceCall ==
    /\ fn_pc = "called" /\ fn_call.fn = "calculate_remaining_balance"
    /\ fn_result' = calculate_remaining_balance(
                        fn_call.principal, fn_call.annual_rate,
                        fn_call.amortization_months,
                        fn_call.payments_completed)
    /\ fn_pc' = "returned"
    /\ UNCHANGED fn_call
    /\ UNCHANGED fnFrame

EscalationFactorCall ==
    /\ fn_pc = "called" /\ fn_call.fn = "calculate_escalation_factor"
    /\ fn_result' = calculate_escalation_factor(
                        fn_call.annual_rate, fn_call.period,
                        fn_call.frequency)
    /\ fn_pc' = "returned"
    /\ UNCHANGED fn_call
    /\ UNCHANGED fnFrame

PropertyTaxEscalationCall ==
    /\ fn_pc = "called" /\ fn_call.fn = "calculate_property_tax_escalation"
    /\ fn_result' = calculate_property_tax_escalation(
                        fn_call.annual_rate, fn_call.period)
    /\ fn_pc' = "returned"
    /\ UNCHANGED fn_call
    /\ UNCHANGED fnFrame

TenantRentCall ==
    /\ fn_pc = "called" /\ fn_call.fn = "calculate_tenant_rent"
    /\ fn_result' = calculate_tenant_rent(fn_call.tenant, fn_call.period,
                                          fn_call.rent_growth)
    /\ fn_pc' = "returned"
    /\ UNCHANGED fn_call
    /\ UNCHANGED fnFrame

FunctionNext ==
    \/ RemainingBalanceCall \/ EscalationFactorCall
    \/ PropertyTaxEscalationCall \/ TenantRentCall

SpecFunctions == FunctionInit /\ [][FunctionNext]_vars

(***************************************************************************)
(* Pure-function claims.  All are checked under SpecFunctions.             *)
(***************************************************************************)
FnReturned(name) == fn_pc = "returned" /\ fn_call.fn = name

\* C15: calculate_remaining_balance never returns a negative balance, for
\* every principal, annual rate (a rate of exactly 0 included), term and
\* number of payments completed (more than the term included).
C15_BalanceNeverNegative ==
    FnReturned("calculate_remaining_balance") => RGe(fn_result, Zero)

C18_StaticShareSplit ==
    (WfPositive
        /\ RAdd(UnreturnedAfter, EquityPaid) = Zero
        /\ RAdd(AccruedAfter, PrefPaid) = Zero
        /\ final_split = DEFAULT_FINAL_SPLIT) =>
        /\ total_to_lp(wf_period) = RMul(wf_period.cash_flow, lp_share)
        /\ total_to_gp(wf_period) = RMul(wf_period.cash_flow, gp_share)


(***************************************************************************)
(* POST /calculate/irr: app/api/calculations.py, calculate_irr_endpoint.   *)
(* The handler calls calculate_xirr when the request carries dates and     *)
(* calculate_irr otherwise, with the default guess; the solver's steps are *)
(* the actions of the IRR section.                                         *)
(***************************************************************************)
\* calculate_npv(cash_flows, discount_rate), by period index
RECURSIVE PeriodicNpvFrom(_, _, _)
PeriodicNpvFrom(cfs, k, r) ==
    IF k > Len(cfs) THEN Zero
    ELSE RAdd(RDiv(cfs[k], RPow(RAdd(One, r), k - 1)),
              PeriodicNpvFrom(cfs, k + 1, r))

\* sum(cf for cf in cash_flows if cf > 0) and the same for cf < 0
RECURSIVE SumWhere(_, _)
SumWhere(cfs, positive) ==
    IF cfs = <<>> THEN Zero
    ELSE RAdd(IF (positive /\ RGt(Head(cfs), Zero))
                  \/ (~positive /\ RLt(Head(cfs), Zero))
              THEN Head(cfs) ELSE Zero,
              SumWhere(Tail(cfs), positive))

\* calculate_multiple: the value returned, given that there are outflows.
calculate_multiple(cfs) ==
    RDiv(SumWhere(cfs, TRUE), RAbs(SumWhere(cfs, FALSE)))

\* calculate_multiple raises when there are no outflows.
NoOutflows(cfs) == SumWhere(cfs, FALSE) = Zero

\* `except ValueError as e: raise HTTPException(status_code=400, ...)`; any
\* other exception is not caught and the framework answers 500.
ErrorStatus(e) == IF e.kind = "ValueError" THEN 400 ELSE 500

\* The response of the handler once the solver has returned or raised.
IrrResponse ==
    IF irr_pc = "raised"
    THEN [status |-> ErrorStatus(irr_error), detail |-> irr_error.message]
    ELSE IF NoOutflows(irr_cash_flows)
    THEN [status |-> ErrorStatus(ValueError("No investment (outflows) found")),
          detail |-> "No investment (outflows) found"]
    ELSE [status |-> 200,
          irr |-> irr_result,
          multiple |-> calculate_multiple(irr_cash_flows),
          profit |-> RSum(irr_cash_flows),
          npv_at_10_percent |->
              PeriodicNpvFrom(irr_cash_flows, 1, Rat(1, 10))]

\* Request bodies.  <<-380, 784, -407>> makes Newton cycle between the rates
\* 0.1 and 0 from the default guess; <<-1e-7, 1e-7>> has a derivative below
\* the tolerance there.
RequestCashFlows ==
    { <<>>, <<Whole(-100)>>,
      <<Whole(100), Whole(100), Whole(100)>>,
      <<Whole(-100), Whole(-50), Whole(-25)>>,
      <<Whole(-100), Whole(110)>>,
      <<Whole(-380), Whole(784), Whole(-407)>>,
      <<Rat(-1, 10000000), Rat(1, 10000000)>> }

\* A request arrives: `if inputs.dates` is false for a missing and for an
\* empty list of dates.
IrrEndpointInit ==
    /\ irr_cash_flows \in RequestCashFlows
    /\ irr_dates \in IrrDateLists
    /\ irr_fn = IF irr_dates # <<>> THEN "xirr" ELSE "irr"
    /\ guess = DEFAULT_GUESS
    /\ rate = Zero /\ iterations = 0
    /\ irr_pc = "call" /\ irr_result = NoResult /\ irr_error = NoError
    /\ api_pc = "solving" /\ api_response = NoResponse
    /\ ApiAlone

\* The handler returns IRRResponse or raises HTTPException.
Respond ==
    /\ api_pc = "solving" /\ IrrTerminated
    /\ api_response' = IrrResponse
    /\ api_pc' = "responded"
    /\ UNCHANGED irrVars
    /\ UNCHANGED apiFrame

IrrEndpointNext ==
    \/ calculate_irr
    \/ calculate_xirr
    \/ NewtonIteration
    \/ LoopExhausted
    \/ Respond

SpecIrrEndpoint == IrrEndpointInit /\ [][IrrEndpointNext]_vars

\* C19: an invalid request (fewer than 2 cash flows, cash flows of one sign,
\* cash flows and dates of different lengths) is answered with status 400,
\* and a failure of the solver to converge on a valid request is answered
\* with another status: the two classes never share a response status.
C19_FailureClassesDistinct ==
    api_pc = "responded" =>
        /\ InvalidInput => api_response.status = 400
        /\ (~InvalidInput /\ irr_pc = "raised"
                /\ irr_error.message \in ConvergenceMessages) =>
               api_response.status # 400

\* ---------------------------------------------------------------------------
\* The authentication endpoints: login, forgot-password, reset-password,
\* refresh and logout, over the users, refresh_tokens and
\* password_reset_tokens tables. Every handler runs to its commit without
\* awaiting, so a request is one step. Time is datetime.utcnow() in whole
\* seconds, the resolution of a JWT's exp claim.
\* ---------------------------------------------------------------------------

jwt_refresh_token_expire_days == 7
jwt_access_token_expire_minutes == 30
password_reset_token_expire_hours == 24

RefreshLifetime == jwt_refresh_token_expire_days * 86400
AccessLifetime == jwt_access_token_expire_minutes * 60
ResetLifetime == password_reset_token_expire_hours * 3600

\* The seconds the clock ticks through, before and after the long wait.
MaxSeconds == 1
MaxRefreshRows == 3
MaxResetRows == 1

Passwords == {"p0", "p1"}
\* The password a reset request sets.
NewPasswords == {"p1"}
\* The user whose role is admin.
Admin == "u1"
NoPassword == <<"", "">>
NoTime == -1

\* hash_password and verify_password: the hash of the password, salted; a
\* password verifies against its own hash only.
hash_password(password) == <<"bcrypt", password>>
verify_password(password, hashed) == hashed = hash_password(password)

\* hash_token: the SHA-256 digest, one per token string.
hash_token(token) == <<"sha256", token>>

\* create_refresh_token and create_access_token: the signed payload. The
\* token string is a function of the payload: sub, exp (in whole seconds)
\* and type; email and role are fixed for a user and are left out.
create_refresh_token(user_id, now) ==
    [sub |-> user_id, exp |-> now + RefreshLifetime, type |-> "refresh"]
create_access_token(user_id, now) ==
    [sub |-> user_id, exp |-> now + AccessLifetime, type |-> "access"]

\* decode_token: the payload of a token that is signed and not expired,
\* None (here FALSE for "decodes") otherwise.
Decodes(token, now) == token /= NoToken /\ token.exp >= now

\* A RefreshToken row and a PasswordResetToken row.
RefreshTokenRow(user_id, token, now) ==
    [user_id |-> user_id, token_hash |-> hash_token(token),
     expires_at |-> now + RefreshLifetime, revoked_at |-> NoTime]
PasswordResetTokenRow(user_id, token, now) ==
    [user_id |-> user_id, token |-> token,
     expires_at |-> now + ResetLifetime, used_at |-> NoTime]

\* The refresh tokens issued to a user so far: one row was stored per token.
IssuedTo(user_id) ==
    {refresh_tokens[i].token_hash[2] :
        i \in {j \in 1..Len(refresh_tokens) :
                 refresh_tokens[j].user_id = user_id}}

\* What a client can send as its refresh token: nothing, a refresh token it
\* was issued, or an access token.
PresentedTokens ==
    {NoToken} \cup UNION {IssuedTo(u) : u \in Users}
        \cup {create_access_token(u, 0) : u \in Users}

AuthResponse(endpoint, status) ==
    [NoAuthResponse EXCEPT !.endpoint = endpoint, !.status = status]

AuthInit ==
    /\ auth_pc = "serving"
    /\ utcnow = 0
    /\ hashed_password = [u \in Users |-> hash_password("p0")]
    /\ is_active = [u \in Users |-> TRUE]
    /\ refresh_tokens = <<>>
    /\ password_reset_tokens = <<>>
    /\ reset_before = [u \in Users |-> {}]
    /\ used_resets = {}
    /\ auth_response = NoAuthResponse
    /\ AuthAlone

\* A second passes.
Tick ==
    /\ auth_pc = "serving"
    /\ utcnow < MaxSeconds
    /\ utcnow' = utcnow + 1
    /\ UNCHANGED <<auth_pc, hashed_password, is_active, refresh_tokens,
                   password_reset_tokens, reset_before, used_resets,
                   auth_response>>
    /\ UNCHANGED authFrame

\* More than the lifetime of a refresh token passes.
Elapse ==
    /\ auth_pc = "serving"
    /\ utcnow < RefreshLifetime
    /\ utcnow' = utcnow + RefreshLifetime + 1
    /\ UNCHANGED <<auth_pc, hashed_password, is_active, refresh_tokens,
                   password_reset_tokens, reset_before, used_resets,
                   auth_response>>
    /\ UNCHANGED authFrame

\* PUT /api/admin/users/{user_id}: the administrator activates or
\* deactivates an account, but cannot deactivate their own.
update_user ==
    /\ auth_pc = "serving"
    /\ \E u \in Users, active \in BOOLEAN :
         /\ ~(u = Admin /\ ~active)
         /\ is_active' = [is_active EXCEPT ![u] = active]
         /\ auth_response' = AuthResponse("update-user", 200)
    /\ UNCHANGED <<auth_pc, utcnow, hashed_password, refresh_tokens,
                   password_reset_tokens, reset_before, used_resets>>
    /\ UNCHANGED authFrame

\* POST /api/auth/login
login ==
    /\ auth_pc = "serving"
    /\ Len(refresh_tokens) < MaxRefreshRows
    /\ \E u \in Users, password \in Passwords :
         IF hashed_password[u] = NoPassword
                \/ ~verify_password(password, hashed_password[u])
         THEN /\ auth_response' = AuthResponse("login", 401)
              /\ UNCHANGED refresh_tokens
         ELSE IF ~is_active[u]
         THEN /\ auth_response' = AuthResponse("login", 403)
              /\ UNCHANGED refresh_tokens
         ELSE LET refresh_token == create_refresh_token(u, utcnow)
              IN  /\ refresh_tokens' =
                         Append(refresh_tokens,
                                RefreshTokenRow(u, refresh_token, utcnow))
                  /\ auth_response' =
                         [AuthResponse("login", 200)
                             EXCEPT !.issued = refresh_token]
    /\ UNCHANGED <<auth_pc, utcnow, hashed_password, is_active,
                   password_reset_tokens, reset_before, used_resets>>
    /\ UNCHANGED authFrame

\* POST /api/auth/forgot-password. generate_token draws a fresh random
\* token: here the number of the row.
forgot_password ==
    /\ auth_pc = "serving"
    /\ Len(password_reset_tokens) < MaxResetRows
    /\ \E u \in Users :
         /\ IF is_active[u] /\ hashed_password[u] /= NoPassword
            THEN password_reset_tokens' =
                     Append(password_reset_tokens,
                            PasswordResetTokenRow(
                                u, Len(password_reset_tokens) + 1, utcnow))
            ELSE UNCHANGED password_reset_tokens
         /\ auth_response' = AuthResponse("forgot-password", 200)
    /\ UNCHANGED <<auth_pc, utcnow, hashed_password, is_active,
                   refresh_tokens, reset_before, used_resets>>
    /\ UNCHANGED authFrame

\* The refresh_tokens table after
\* filter(user_id == ..., revoked_at == None).update({"revoked_at": now}).
RevokeAll(rows, user_id, now) ==
    [i \in 1..Len(rows) |->
        IF rows[i].user_id = user_id /\ rows[i].revoked_at = NoTime
        THEN [rows[i] EXCEPT !.revoked_at = now]
        ELSE rows[i]]

\* POST /api/auth/reset-password
reset_password ==
    /\ auth_pc = "serving"
    /\ \E token \in 1..(MaxResetRows + 1), password \in NewPasswords :
         LET found == token <= Len(password_reset_tokens)
             reset_token == password_reset_tokens[token]
             answer(status) ==
                 [AuthResponse("reset-password", status)
                     EXCEPT !.reset_token = token,
                            !.used_before = token \in used_resets]
         IN  IF \/ ~found
                \/ reset_token.used_at /= NoTime
                \/ reset_token.expires_at < utcnow
                \/ ~is_active[reset_token.user_id]
             THEN /\ auth_response' = answer(400)
                  /\ UNCHANGED <<hashed_password, refresh_tokens,
                                 password_reset_tokens, reset_before,
                                 used_resets>>
             ELSE LET u == reset_token.user_id
                  IN  /\ hashed_password' =
                             [hashed_password EXCEPT
                                 ![u] = hash_password(password)]
                      /\ password_reset_tokens' =
                             [password_reset_tokens EXCEPT
                                 ![token].used_at = utcnow]
                      /\ refresh_tokens' =
                             RevokeAll(refresh_tokens, u, utcnow)
                      /\ reset_before' =
                             [reset_before EXCEPT
                                 ![u] = reset_before[u] \cup IssuedTo(u)]
                      /\ used_resets' = used_resets \cup {token}
                      /\ auth_response' = answer(200)
    /\ UNCHANGED <<auth_pc, utcnow, is_active>>
    /\ UNCHANGED authFrame

\* The rows the query of refresh_tokens matches; .first() takes one.
StoredTokens(user_id, token_hash) ==
    {i \in 1..Len(refresh_tokens) :
        /\ refresh_tokens[i].user_id = user_id
        /\ refresh_tokens[i].token_hash = token_hash
        /\ refresh_tokens[i].revoked_at = NoTime}

\* POST /api/auth/refresh
refresh_tokens_endpoint ==
    /\ auth_pc = "serving"
    /\ Len(refresh_tokens) < MaxRefreshRows
    /\ \E refresh_token \in PresentedTokens :
         LET user_id == refresh_token.sub
             token_hash == hash_token(refresh_token)
             answer(status) ==
                 [AuthResponse("refresh", status)
                     EXCEPT !.refresh_token = refresh_token,
                            !.reset_before =
                                /\ user_id \in Users
                                /\ refresh_token \in reset_before[user_id]]
         IN  IF \/ refresh_token = NoToken
                \/ ~Decodes(refresh_token, utcnow)
                \/ refresh_token.type /= "refresh"
                \/ StoredTokens(user_id, token_hash) = {}
             THEN /\ auth_response' = answer(401)
                  /\ UNCHANGED refresh_tokens
             ELSE \E i \in StoredTokens(user_id, token_hash) :
                    IF \/ refresh_tokens[i].expires_at < utcnow
                       \/ ~is_active[user_id]
                    THEN /\ auth_response' = answer(401)
                         /\ UNCHANGED refresh_tokens
                    ELSE LET new_refresh_token ==
                                 create_refresh_token(user_id, utcnow)
                         IN  /\ refresh_tokens' =
                                    Append(
                                        [refresh_tokens EXCEPT
                                            ![i].revoked_at = utcnow],
                                        RefreshTokenRow(
                                            user_id, new_refresh_token,
                                            utcnow))
                             /\ auth_response' =
                                    [answer(200) EXCEPT
                                        !.issued = new_refresh_token]
    /\ UNCHANGED <<auth_pc, utcnow, hashed_password, is_active,
                   password_reset_tokens, reset_before, used_resets>>
    /\ UNCHANGED authFrame

\* POST /api/auth/logout, by a user whose access token is valid.
logout ==
    /\ auth_pc = "serving"
    /\ \E u \in Users : \E refresh_token \in {NoToken} \cup IssuedTo(u) :
         /\ is_active[u]
         /\ \E i \in 1..Len(refresh_tokens) :
              /\ refresh_tokens[i].user_id = u
              /\ utcnow <= refresh_tokens[i].expires_at - RefreshLifetime
                               + AccessLifetime
         /\ refresh_tokens' =
                IF refresh_token = NoToken
                THEN refresh_tokens
                ELSE [i \in 1..Len(refresh_tokens) |->
                        IF /\ refresh_tokens[i].user_id = u
                           /\ refresh_tokens[i].token_hash =
                                  hash_token(refresh_token)
                        THEN [refresh_tokens[i] EXCEPT
                                 !.revoked_at = utcnow]
                        ELSE refresh_tokens[i]]
         /\ auth_response' =
                [AuthResponse("logout", 200)
                    EXCEPT !.refresh_token = refresh_token]
    /\ UNCHANGED <<auth_pc, utcnow, hashed_password, is_active,
                   password_reset_tokens, reset_before, used_resets>>
    /\ UNCHANGED authFrame

AuthNext ==
    \/ Tick
    \/ Elapse
    \/ update_user
    \/ login
    \/ forgot_password
    \/ reset_password
    \/ refresh_tokens_endpoint
    \/ logout

SpecAuth == AuthInit /\ [][AuthNext]_vars

\* C20: once a password reset of a user has succeeded, a refresh request
\* that presents a refresh token issued to that user before the reset is
\* answered 401 and issues no token, and a reset request that presents the
\* reset token of a successful reset is answered 400.
C20_ResetRevokesSessions ==
    /\ (auth_response.endpoint = "refresh" /\ auth_response.reset_before)
           => /\ auth_response.status = 401
              /\ auth_response.issued = NoToken
    /\ (auth_response.endpoint = "reset-password"
            /\ auth_response.used_before)
           => auth_response.status = 400

(***************************************************************************)
(* Waterfall claims on a period's step: the unprimed balances are those    *)
(* carried into period wf_i, the primed ones those carried out of it.      *)
(***************************************************************************)
\* The step that processes period wf_i.
WfStep == wf_i' = wf_i + 1 /\ wf_i < Len(leveraged_cash_flows)
\* The record appended by the step.
WfNewRecord == distributions'[wf_i + 1]

\* What a step on a zero or negative cash flow does.
C22_NoDistributionStep ==
    (WfStep /\ RLe(leveraged_cash_flows[wf_i + 1], Zero)) =>
        /\ \A f \in {"lp_equity_return", "gp_equity_return",
                     "lp_preferred_return", "gp_preferred_return",
                     "lp_profit_share", "gp_profit_share", "gp_promote",
                     "total_to_lp", "total_to_gp"} :
              WfNewRecord[f] = Zero
        /\ lp_equity_unreturned' = lp_equity_unreturned
        /\ gp_equity_unreturned' = gp_equity_unreturned
        /\ lp_pref_accrued' = Accrued(wf_i, lp_equity, lp_pref_accrued)
        /\ gp_pref_accrued' = Accrued(wf_i, gp_equity, gp_pref_accrued)
        /\ RGe(lp_pref_accrued', lp_pref_accrued)
        /\ RGe(gp_pref_accrued', gp_pref_accrued)

\* C22: a period whose cash flow is zero or negative appends a record whose
\* distribution fields are all zero, leaves both unreturned-equity balances
\* as they were, and changes the accrued-preferred balances by that
\* period's accrual only.
C22_NoDistribution == [][C22_NoDistributionStep]_vars

\* A negative cash flow was processed while equity was unreturned and
\* preferred return accrued.
C22_Witness ==
    /\ WfProcessed /\ RLt(wf_period.cash_flow, Zero)
    /\ wf_i > 1
    /\ RGt(lp_equity_unreturned, Zero) /\ RGt(gp_equity_unreturned, Zero)
    /\ RGt(lp_pref_accrued, Zero) /\ RGt(gp_pref_accrued, Zero)

\* The four running balances stored in a record.
BalanceFields ==
    {"lp_equity_unreturned", "gp_equity_unreturned",
     "lp_pref_accrued", "gp_pref_accrued"}
\* Capital and preferred return have both been paid in records before the
\* n-th.
PaidDownBefore(n) ==
    /\ \E m \in 1..(n - 1) :
          RGt(RAdd(distributions[m].lp_equity_return,
                   distributions[m].gp_equity_return), Zero)
    /\ \E m \in 1..(n - 1) :
          RGt(RAdd(distributions[m].lp_preferred_return,
                   distributions[m].gp_preferred_return), Zero)

\* C23 (as stated): in every record the unreturned-equity and
\* accrued-preferred balances of LP and GP are not negative, and once
\* capital and preferred return have been paid down no balance is larger in
\* a record than in the record before it.
C23_BalancesNeverIncrease ==
    \A n \in 1..Len(distributions) : \A f \in BalanceFields :
        /\ RGe(distributions[n][f], Zero)
        /\ (n > 1 /\ PaidDownBefore(n))
               => RLe(distributions[n][f], distributions[n - 1][f])

\* C23 (amended): the running balances and the stored balances are never
\* negative, and the unreturned-equity balances never increase from one
\* record to the next; the accrued-preferred balances are not monotone.
C23_EquityBalancesNeverIncrease ==
    /\ RGe(lp_equity_unreturned, Zero) /\ RGe(gp_equity_unreturned, Zero)
    /\ RGe(lp_pref_accrued, Zero) /\ RGe(gp_pref_accrued, Zero)
    /\ \A n \in 1..Len(distributions) :
          /\ \A f \in BalanceFields : RGe(distributions[n][f], Zero)
          /\ n > 1 =>
                \A f \in {"lp_equity_unreturned", "gp_equity_unreturned"} :
                    RLe(distributions[n][f], distributions[n - 1][f])

\* Capital was paid down in two records and a balance is still unreturned.
C23_Witness ==
    /\ Len(distributions) = 3
    /\ RGt(distributions[2].lp_equity_return, Zero)
    /\ RGt(distributions[3].lp_equity_return, Zero)
    /\ RLt(distributions[3].lp_equity_unreturned,
           distributions[2].lp_equity_unreturned)
    /\ RGt(distributions[3].lp_equity_unreturned, Zero)
    /\ RGt(distributions[3].lp_pref_accrued, distributions[2].lp_pref_accrued)

\* A party's accrued balance when the period's cash is distributed: what is
\* left after the step plus what the step paid.
LpAccruedAtDistribution == RAdd(lp_pref_accrued', wf_period'.lp_pref_paid)
GpAccruedAtDistribution == RAdd(gp_pref_accrued', wf_period'.gp_pref_paid)

\* pref_return / 12 of a base amount.
MonthlyPrefOn(base) == RDiv(RMul(base, pref_return), Whole(12))

\* The accrual of a step, on `base(equity, accrued)` when compounding.
AccrualStep(base(_, _)) ==
    WfStep =>
        IF wf_i = 0
        THEN /\ LpAccruedAtDistribution = Zero
             /\ GpAccruedAtDistribution = Zero
        ELSE IF compound_monthly
        THEN /\ LpAccruedAtDistribution =
                    RAdd(lp_pref_accrued,
                         MonthlyPrefOn(base(RMul(total_equity, lp_share),
                                            lp_pref_accrued)))
             /\ GpAccruedAtDistribution =
                    RAdd(gp_pref_accrued,
                         MonthlyPrefOn(base(RMul(total_equity, gp_share),
                                            gp_pref_accrued)))
        ELSE /\ LpAccruedAtDistribution =
                    RAdd(lp_pref_accrued,
                         MonthlyPrefOn(RMul(total_equity, lp_share)))
             /\ GpAccruedAtDistribution =
                    RAdd(gp_pref_accrued,
                         MonthlyPrefOn(RMul(total_equity, gp_share)))

AccruedOnly(equity, accrued) == accrued
EquityPlusAccrued(equity, accrued) == RAdd(equity, accrued)

\* C24 (as stated): preferred return accrues once per period except in
\* period 0, where the accrued balances are 0; with simple accrual a party's
\* balance grows by original equity x pref_return / 12, whatever equity has
\* been returned; with compound_monthly the accrual is pref_return / 12 of
\* the party's accrued-but-unpaid balance.
C24_AccrualOnAccruedBalance == [][AccrualStep(AccruedOnly)]_vars

\* C24 (amended): as above, but with compound_monthly the accrual is
\* pref_return / 12 of the party's original equity plus its
\* accrued-but-unpaid balance.
C24_AccrualOnEquityPlusAccrued == [][AccrualStep(EquityPlusAccrued)]_vars

\* Three periods were processed with a positive preferred return, and
\* capital was returned before the last accrual.
C24_Witness ==
    /\ wf_i = 3
    /\ RGt(pref_return, Zero) /\ RGt(total_equity, Zero)
    /\ RGt(distributions[2].lp_equity_return, Zero)
    /\ RGt(RAdd(lp_pref_accrued, wf_period.lp_pref_paid), Zero)

\* Base rent plus the fixed reimbursement (fixed opex and property tax) of a
\* period_data entry.
RentPlusFixed(data) ==
    RAdd(data.base_rent, RAdd(data.fixed_opex, data.prop_tax))

C26_PeriodZeroNoOperations ==
    Len(cash_flows) >= 1 =>
        /\ cash_flows[1].period = 0
        /\ cash_flows[1].base_rent = Zero
        /\ cash_flows[1].reimbursement_revenue = Zero
        /\ cash_flows[1].potential_revenue = Zero
        /\ cash_flows[1].fixed_opex = Zero
        /\ cash_flows[1].capex_reserve = Zero

\* C28: with the default lease settings (no tenant list, NNN), in every
\* period >= 1 effective_revenue is potential_revenue x (1 - vacancy_rate):
\* equal to potential revenue, with no vacancy loss, at vacancy 0, and half
\* of it at vacancy 1/2.
C28_EffectiveIsPotentialLessVacancy ==
    \A k \in 1..Len(period_data) :
        LET data == period_data[k]
        IN  (cf_args.tenants = <<>> /\ cf_args.nnn_lease /\ data.period >= 1)
                => /\ data.effective_revenue =
                          RMul(data.potential_revenue,
                               RSub(One, cf_args.vacancy_rate))
                   /\ cf_args.vacancy_rate = Zero =>
                          data.vacancy_loss = Zero


\* The rent of one month at a yearly rate per square foot, escalated.
MonthlyRent(call, rent_psf) ==
    RDiv(RDiv(RMul(RMul(call.tenant.rsf, rent_psf),
                   MonthlyPower(RAdd(One, call.rent_growth), call.period)),
              Whole(12)), Whole(1000))

\* The gross rent of the lease lifecycle: in-place rent to the end of the
\* lease, nothing during the build-out months that follow it when rollover
\* costs apply, market rent from then on.
LifecycleRent(call) ==
    IF call.period <= call.tenant.lease_end_month
    THEN MonthlyRent(call, call.tenant.in_place_rent_psf)
    ELSE IF /\ call.apply_rollover_costs
            /\ call.period <= call.tenant.lease_end_month
                                  + call.ti_buildout_months
         THEN Zero
         ELSE MonthlyRent(call, call.tenant.market_rent_psf)

\* C27: the rent of a tenant follows the lease lifecycle: in-place rent
\* while period <= lease_end_month; with apply_rollover_costs, zero rent for
\* the ti_buildout_months periods after expiry and (gross) market rent from
\* then on; without it, market rent from lease_end_month + 1; a tenant whose
\* lease ends after the last period never leaves in-place rent.
C27_LeaseLifecycle ==
    FnReturned("calculate_tenant_rent") => fn_result = LifecycleRent(fn_call)


(***************************************************************************)
(* Refresh tokens, on a step of POST /api/auth/refresh.                    *)
(***************************************************************************)
\* The step is a refresh request that presents the token and is answered
\* 200: a new row is stored and new tokens are returned.
Redeems(token) ==
    /\ Len(refresh_tokens') = Len(refresh_tokens) + 1
    /\ auth_response'.endpoint = "refresh"
    /\ auth_response'.status = 200
    /\ auth_response'.refresh_token = token

\* The last request answered was a successful refresh, or a logout, that
\* presented the token.
JustSpent(token) ==
    /\ token /= NoToken
    /\ auth_response.refresh_token = token
    /\ \/ auth_response.endpoint = "refresh" /\ auth_response.status = 200
       \/ auth_response.endpoint = "logout"

\* What no step does if refresh tokens are single-use.
C29_SingleUseStep ==
    \A u \in Users : \A token \in IssuedTo(u) :
        JustSpent(token) => ~Redeems(token)

\* C29: a refresh token is redeemed at most once: the refresh request that
\* follows a successful refresh, or a logout, with the same token is not
\* answered 200.
C29_SingleUse == [][C29_SingleUseStep]_vars


(***************************************************************************)
(* The admin user-management endpoints.  A request is authorized by       *)
(* require_admin and then handled; requests of different callers           *)
(* interleave between the two.                                             *)
(***************************************************************************)
\* UserRole
UserRole == {"admin", "user"}

\* The optional fields of UpdateUserRequest: <<>> is None, <<v>> a value.
RoleRequests == {<<>>, <<"">>, <<"admin">>, <<"user">>, <<"owner">>}
IsActiveRequests == {<<>>, <<TRUE>>, <<FALSE>>}

\* The rows a users table holds: a deleted account is inactive.
UserRows ==
    {r \in [role : UserRole, is_active : BOOLEAN, is_deleted : BOOLEAN] :
        r.is_deleted => ~r.is_active}

\* get_current_user_optional: the caller's row, found when the account is
\* neither deleted nor inactive.
CurrentUser(caller) == ~users[caller].is_deleted /\ users[caller].is_active

\* An account that administers: found by get_current_user and passed by
\* require_admin.
ActiveAdmin(row) ==
    ~row.is_deleted /\ row.is_active /\ row.role = "admin"

AdminResponse(endpoint, admin, user_id, role, active, status) ==
    [endpoint |-> endpoint, admin |-> admin, user_id |-> user_id,
     role |-> role, is_active |-> active, status |-> status]

AdminInit ==
    /\ users \in [Users -> UserRows]
    /\ admin_pc = [u \in Users |-> "idle"]
    /\ admin_response = NoAdminResponse
    /\ AdminAlone

\* require_admin, for a request that carries a valid access token of the
\* caller: 401 without a current user, 403 unless the user is an admin,
\* and otherwise the request goes on to its handler.
require_admin(caller) ==
    /\ admin_pc[caller] = "idle"
    /\ IF ~CurrentUser(caller)
       THEN /\ admin_response' =
                   AdminResponse("", caller, "", <<>>, <<>>, 401)
            /\ UNCHANGED admin_pc
       ELSE IF users[caller].role /= "admin"
       THEN /\ admin_response' =
                   AdminResponse("", caller, "", <<>>, <<>>, 403)
            /\ UNCHANGED admin_pc
       ELSE /\ admin_pc' = [admin_pc EXCEPT ![caller] = "authorized"]
            /\ UNCHANGED admin_response
    /\ UNCHANGED users
    /\ UNCHANGED adminFrame

\* The self-demotion check of update_user, without the check.
SelfDemotionAllowed(user_id, admin_id, role) == FALSE
\* "Prevent self-demotion from admin": the request names the caller and a
\* role that is not empty and not admin.
SelfDemotion(user_id, admin_id, role) ==
    user_id = admin_id /\ role /= <<>> /\ role[1] /= "" /\ role[1] /= "admin"

\* "Prevent self-deactivation"
SelfDeactivation(user_id, admin_id, active) ==
    user_id = admin_id /\ active = <<FALSE>>

\* PUT /api/admin/users/{user_id}
admin_update_user(admin) ==
    /\ admin_pc[admin] = "authorized"
    /\ \E user_id \in Users, role \in RoleRequests,
          active \in IsActiveRequests :
         LET answer(status) ==
                 AdminResponse("update_user", admin, user_id, role, active,
                               status)
         IN  IF users[user_id].is_deleted
             THEN admin_response' = answer(404) /\ UNCHANGED users
             ELSE IF \/ SelfDemotion(user_id, admin, role)
                     \/ SelfDeactivation(user_id, admin, active)
                     \/ role /= <<>> /\ role[1] \notin UserRole
             THEN admin_response' = answer(400) /\ UNCHANGED users
             ELSE /\ users' =
                        [users EXCEPT
                            ![user_id].role =
                                IF role /= <<>> THEN role[1] ELSE @,
                            ![user_id].is_active =
                                IF active /= <<>> THEN active[1] ELSE @]
                  /\ admin_response' = answer(200)
    /\ admin_pc' = [admin_pc EXCEPT ![admin] = "idle"]
    /\ UNCHANGED adminFrame

\* DELETE /api/admin/users/{user_id}
admin_delete_user(admin) ==
    /\ admin_pc[admin] = "authorized"
    /\ \E user_id \in Users :
         LET answer(status) ==
                 AdminResponse("delete_user", admin, user_id, <<>>, <<>>,
                               status)
         IN  IF users[user_id].is_deleted
             THEN admin_response' = answer(404) /\ UNCHANGED users
             ELSE IF user_id = admin
             THEN admin_response' = answer(400) /\ UNCHANGED users
             ELSE /\ users' = [users EXCEPT ![user_id].is_deleted = TRUE,
                                            ![user_id].is_active = FALSE]
                  /\ admin_response' = answer(200)
    /\ admin_pc' = [admin_pc EXCEPT ![admin] = "idle"]
    /\ UNCHANGED adminFrame

AdminNext ==
    \E caller \in Users :
        \/ require_admin(caller)
        \/ admin_update_user(caller)
        \/ admin_delete_user(caller)

SpecAdmin == AdminInit /\ [][AdminNext]_vars

(***************************************************************************)
(* Admin claims, on a step of a handler.  All are checked under SpecAdmin. *)
(***************************************************************************)
\* The step is the handling of the caller's request.
Handles(caller) ==
    /\ admin_pc[caller] = "authorized" /\ admin_pc'[caller] = "idle"
    /\ admin_response'.admin = caller

\* The request handled asks to remove the caller's own standing: a DELETE
\* of the caller's id, or a PUT of it with a role other than admin or with
\* is_active = false.
RemovesOwnStanding(caller) ==
    /\ Handles(caller)
    /\ admin_response'.user_id = caller
    /\ \/ admin_response'.endpoint = "delete_user"
       \/ /\ admin_response'.endpoint = "update_user"
          /\ \/ admin_response'.role \notin {<<>>, <<"admin">>}
             \/ admin_response'.is_active = <<FALSE>>

C21_NoSelfRemovalStep ==
    \A caller \in Users :
        RemovesOwnStanding(caller) =>
            /\ users' = users
            /\ ActiveAdmin(users[caller]) => admin_response'.status = 400

\* C21: a PUT on the caller's own id that requests a role other than admin
\* or is_active = false, and a DELETE on the caller's own id, leave the
\* users table as it was, and are answered 400 when the caller is an admin
\* (active, not deleted).
C21_NoSelfRemoval == [][C21_NoSelfRemovalStep]_vars

\* An admin's request to take the admin role from themselves has been
\* rejected: they are an admin still.
C21_Witness ==
    /\ admin_response.endpoint = "update_user"
    /\ admin_response.status = 400
    /\ admin_response.user_id = admin_response.admin
    /\ admin_response.role = <<"user">>
    /\ admin_response.is_active = <<>>
    /\ ActiveAdmin(users[admin_response.admin])

C30_AdminRemainsStep ==
    (\E u \in Users : ActiveAdmin(users[u]))
        => \E u \in Users : ActiveAdmin(users'[u])

\* C30: no request of an authenticated admin leaves the system without an
\* administrator: when an active, non-deleted admin exists before a step of
\* update_user or delete_user, one exists after it, however the requests
\* interleave.
C30_AdminRemains == [][C30_AdminRemainsStep]_vars

\* The administrator is kept by every request whose caller is an admin
\* still when it is handled.
AdminKeptByAdmins ==
    [][\A caller \in Users :
          (Handles(caller) /\ ActiveAdmin(users[caller]))
              => ActiveAdmin(users'[caller])]_vars

=============================================================================
